---- MODULE Spec2Model ----
(***************************************************************************)
(* SCUMBot log downloader (src/scumbot/downloader.py): checkpointed        *)
(* parsers, kill-line correlation, event persistence with running          *)
(* aggregates, and the per-file pipeline of one target.                    *)
(*                                                                         *)
(* Data abstraction.  A log line is a record of the fields the regular     *)
(* expressions capture; its kind says which pattern matches it.  A         *)
(* timestamp is <<minute, second>>.  Steam ids, weapons, messages,         *)
(* positions and distances are small naturals.  The byte size of a file is *)
(* the number of its lines.  User names, player ids and ip addresses are   *)
(* functions of the steam id and are left out.                             *)
(***************************************************************************)
EXTENDS Integers, Sequences, FiniteSets, TLC

\* ------------------------------------------------------------------ bounds
MaxLines == 3        \* longest file of the parser specification
MaxBatch == 3        \* longest batch handed to parse_kill_lines
MaxFiles == 2        \* file names of one log type

\* --------------------------------------------------------------- constants
NoneVal == -1        \* Python None / SQL NULL
NoFile == 0          \* last_file of a (target, log type) with no parsed_logs row
SuicideWeapon == 0   \* weapon "Suicide"

FileNames == 1..MaxFiles
LogTypes == {"chat", "login", "kill", "admin", "sentry"}

\* --------------------------------------------------------------- log lines
Line(kind, ts, sid, sid2, val, num, pos, tod) ==
    [kind |-> kind, ts |-> ts, sid |-> sid, sid2 |-> sid2, val |-> val,
     num |-> num, pos |-> pos, tod |-> tod]

T0 == <<0, 0>>
T1 == <<0, 1>>       \* same minute as T0, another second
T2 == <<1, 0>>

NoiseLine == Line("noise", T0, 0, 0, 0, 0, 0, 0)   \* 30+ characters, no pattern matches
ShortLine == Line("short", T0, 0, 0, 0, 0, 0, 0)   \* fewer than 30 characters
BlankLine == Line("blank", T0, 0, 0, 0, 0, 0, 0)   \* whitespace only

ChatLine(ts, sid, msg) == Line("chat", ts, sid, 0, msg, 0, 0, 0)
LoginLine(ts, sid, state, pos) == Line("login", ts, sid, 0, state, 0, pos, 0)
SuicideLine(ts, sid, pos) == Line("suicide", ts, sid, 0, 0, 0, pos, 0)
SummaryLine(ts, victim, killer, weapon, dist) ==
    Line("summary", ts, killer, victim, weapon, dist, 0, 0)
DetailLine(ts, kpos, vpos, tod) == Line("detail", ts, 0, 0, 0, vpos, kpos, tod)
BadJsonLine(ts) == Line("badjson", ts, 0, 0, 0, 0, 0, 0)
AdminLine(ts, sid, cmd) == Line("admin", ts, sid, 0, cmd, 0, 0, 0)
SentryLine(ts, sid, weapon, dmg, pos) == Line("sentry", ts, sid, 0, weapon, dmg, pos, 0)

\* Which pattern of the parser of log_type matches the line.
Matches(pattern, line) ==
    CASE pattern = "CHAT_PATTERN" -> line.kind = "chat"
      [] pattern = "LOGIN_PATTERN" -> line.kind = "login"
      [] pattern = "SUICIDE_PATTERN" -> line.kind = "suicide"
      [] pattern = "JSON_KILL_PATTERN" -> line.kind \in {"detail", "badjson"}
      [] pattern = "KILL_SUMMARY_PATTERN" -> line.kind = "summary"
      [] pattern = "ADMIN_PATTERN" -> line.kind = "admin"
      [] pattern = "SENTRY_DESTROY_RE" -> line.kind = "sentry"
      [] OTHER -> FALSE

\* len(line) < 30 after strip()
TooShort(line) == line.kind \in {"short", "blank"}

\* ------------------------------------------------------------------ events
\* idx is the index in the file of the line the event was made from; it is
\* not a field of the code's event, it names the line in the properties.
Event(kind, ts, sid, sid2, val, num, pos, pos2, tod, tag, idx) ==
    [kind |-> kind, ts |-> ts, sid |-> sid, sid2 |-> sid2, val |-> val,
     num |-> num, pos |-> pos, pos2 |-> pos2, tod |-> tod, tag |-> tag, idx |-> idx]

\* ------------------------------------------------------------- checkpoints
Checkpoint(f, l, s) == [last_file |-> f, last_line |-> l, last_file_size |-> s]

get_parsed_checkpoint_default == Checkpoint(NoFile, -1, NoneVal)

FileSize(lines) == Len(lines)

\* update_parsed_checkpoint: the upsert of the row; cpFail: the datastore raises.
update_parsed_checkpoint(cp, log_file, last_line, file_size, cpFail) ==
    IF cpFail THEN cp ELSE Checkpoint(log_file, last_line, file_size)

\* lines[i+1] is line i of the file; the lines with index > last_line_idx
NewLines(lines, last_line_idx) ==
    IF last_line_idx + 1 >= Len(lines) THEN <<>>
    ELSE SubSeq(lines, last_line_idx + 2, Len(lines))

ParseResult(events, cp, start) == [events |-> events, cp |-> cp, start |-> start]

\* ---------------------------------------------------------- parse_kill_lines
\* A suicide line emits its event at once, killer = victim, weapon "Suicide".
SuicideEvent(line, idx) ==
    Event("kill", line.ts, line.sid, line.sid, SuicideWeapon, NoneVal,
          line.pos, line.pos, NoneVal, "SUICIDE", idx)

RECURSIVE SuicideEvents(_, _, _)
SuicideEvents(lines, base, n) ==
    IF n = 0 THEN <<>>
    ELSE LET prev == SuicideEvents(lines, base, n - 1)
             line == lines[n]
         IN IF ~TooShort(line) /\ Matches("SUICIDE_PATTERN", line)
            THEN Append(prev, SuicideEvent(line, base + n - 1))
            ELSE prev

\* The line is buffered in blocks[ts] under "json" resp. "summary".
BuffersJson(line) ==
    /\ ~TooShort(line)
    /\ ~Matches("SUICIDE_PATTERN", line)
    /\ Matches("JSON_KILL_PATTERN", line)
    /\ line.kind # "badjson"            \* json.loads raised: continue

BuffersSummary(line) ==
    /\ ~TooShort(line)
    /\ ~Matches("SUICIDE_PATTERN", line)
    /\ ~Matches("JSON_KILL_PATTERN", line)
    /\ Matches("KILL_SUMMARY_PATTERN", line)

InSeq(x, s) == \E i \in 1..Len(s) : s[i] = x

\* The keys of blocks in insertion order (dict order) after the first n lines.
RECURSIVE BlockKeys(_, _)
BlockKeys(lines, n) ==
    IF n = 0 THEN <<>>
    ELSE LET prev == BlockKeys(lines, n - 1)
             line == lines[n]
         IN IF (BuffersJson(line) \/ BuffersSummary(line)) /\ ~InSeq(line.ts, prev)
            THEN Append(prev, line.ts)
            ELSE prev

Max(S) == CHOOSE x \in S : \A y \in S : y <= x

\* blocks[ts]["summary"] and blocks[ts]["json"]: the last line stored, 0 if none.
LastSummary(lines, ts) ==
    Max({0} \cup {i \in 1..Len(lines) : BuffersSummary(lines[i]) /\ lines[i].ts = ts})

LastJson(lines, ts) ==
    Max({0} \cup {i \in 1..Len(lines) : BuffersJson(lines[i]) /\ lines[i].ts = ts})

\* if tod: event["time_of_day"] = tod   (0 is the empty TimeOfDay)
TimeOfDay(tod) == IF tod = NoneVal \/ tod = 0 THEN NoneVal ELSE tod

\* BlockEvent with the detail line never read.
BlockEventNoDetail(lines, base, s, j) ==
    Event("kill", lines[s].ts, lines[s].sid, lines[s].sid2, lines[s].val, lines[s].num,
          NoneVal, NoneVal, NoneVal, "NONE", base + s - 1)

\* The event of one block with a summary; j = 0: no detail line was buffered.
\* The detail line carries the killer's location in pos, the victim's in num.
BlockEvent(lines, base, s, j) ==
    Event("kill", lines[s].ts, lines[s].sid, lines[s].sid2, lines[s].val, lines[s].num,
          IF j = 0 THEN NoneVal ELSE lines[j].pos,
          IF j = 0 THEN NoneVal ELSE lines[j].num,
          IF j = 0 THEN NoneVal ELSE TimeOfDay(lines[j].tod),
          "NONE", base + s - 1)

\* A block emits an event iff it holds a summary.
BlockEmits(lines, ts) == LastSummary(lines, ts) # 0

RECURSIVE BlockEvents(_, _, _, _)
BlockEvents(lines, base, keys, k) ==
    IF k = 0 THEN <<>>
    ELSE LET prev == BlockEvents(lines, base, keys, k - 1)
             ts == keys[k]
         IN IF BlockEmits(lines, ts)
            THEN Append(prev, BlockEvent(lines, base, LastSummary(lines, ts),
                                         LastJson(lines, ts)))
            ELSE prev

\* lines[1] is line `base` of the file.
parse_kill_lines(lines, base) ==
    LET keys == BlockKeys(lines, Len(lines))
    IN SuicideEvents(lines, base, Len(lines)) \o BlockEvents(lines, base, keys, Len(keys))

\* ------------------------------------------------- rotation / truncation test
\* Rotated with the size test left out.
RotatedNameOnly(cp, log_file, file_size) == cp.last_file # log_file

\* parse_kill_lines_with_checkpoint, parse_admin_file, parse_sentry_file:
\*   last_size = cp["last_file_size"] or 0
Rotated(cp, log_file, file_size) ==
    LET last_size == IF cp.last_file_size = NoneVal THEN 0 ELSE cp.last_file_size
    IN cp.last_file # log_file \/ file_size < last_size

\* parse_log_file
RotatedLog(cp, log_file, file_size) ==
    cp.last_file # log_file
        \/ (cp.last_file_size # NoneVal /\ file_size < cp.last_file_size)

\* ------------------------------------------- parse_kill_lines_with_checkpoint
\* KillNewLastLine counted from the start of the batch, not of the file.
KillNewLastLineInBatch(last_line_idx, new_lines) == Len(new_lines) - 1

\* new_last_line = last_line_idx + len(new_lines)
KillNewLastLine(last_line_idx, new_lines) == last_line_idx + Len(new_lines)

parse_kill_lines_with_checkpoint(lines, log_file, cp, cpFail) ==
    LET file_size == FileSize(lines)
        last_line_idx == IF Rotated(cp, log_file, file_size) THEN -1 ELSE cp.last_line
        new_lines == NewLines(lines, last_line_idx)
    IN IF last_line_idx >= Len(lines) - 1 \/ new_lines = <<>>
       THEN ParseResult(<<>>, cp, last_line_idx)
       ELSE ParseResult(parse_kill_lines(new_lines, last_line_idx + 1),
                        update_parsed_checkpoint(cp, log_file,
                            KillNewLastLine(last_line_idx, new_lines), file_size, cpFail),
                        last_line_idx)

\* ----------------------------------------------------------- parse_log_file
LogPattern(log_type) == IF log_type = "chat" THEN "CHAT_PATTERN" ELSE "LOGIN_PATTERN"

\* d: the groups of the match; the seconds of the time are dropped ("hh:mm:00").
LogEntry(line, idx) ==
    Event(line.kind, <<line.ts[1], 0>>, line.sid, 0, line.val, 0, line.pos, 0, 0, "NONE", idx)

\* line_key = "|".join(str(v) for v in d.values())
LineKey(d) == [d EXCEPT !.idx = 0]

\* The loop over the file after its first n lines: entries, seen_lines and
\* last_processed_index.
RECURSIVE ScanLog(_, _, _, _)
ScanLog(lines, log_type, last_line_idx, n) ==
    IF n = 0 THEN [entries |-> <<>>, seen |-> {}, last |-> last_line_idx]
    ELSE LET acc == ScanLog(lines, log_type, last_line_idx, n - 1)
             i == n - 1
             line == lines[n]
             d == LogEntry(line, i)
         IN IF i <= last_line_idx THEN acc
            ELSE IF TooShort(line) THEN acc
            ELSE IF ~Matches(LogPattern(log_type), line) THEN acc
            ELSE IF LineKey(d) \in acc.seen THEN acc
            ELSE [entries |-> Append(acc.entries, d),
                  seen |-> acc.seen \cup {LineKey(d)},
                  last |-> i]

parse_log_file(lines, log_file, log_type, cp, cpFail) ==
    LET file_size == FileSize(lines)
        last_line_idx == IF RotatedLog(cp, log_file, file_size) THEN -1 ELSE cp.last_line
        scan == ScanLog(lines, log_type, last_line_idx, Len(lines))
    IN IF scan.last > last_line_idx
       THEN ParseResult(scan.entries,
                        update_parsed_checkpoint(cp, log_file, scan.last, file_size, cpFail),
                        last_line_idx)
       ELSE ParseResult(scan.entries, cp, last_line_idx)

\* ---------------------------------------------------------- parse_admin_file
AdminEvent(line, idx) ==
    Event("admin", line.ts, line.sid, 0, line.val, 0, 0, 0, 0, "NONE", idx)

RECURSIVE parse_admin_lines(_, _, _)
parse_admin_lines(lines, base, n) ==
    IF n = 0 THEN <<>>
    ELSE LET prev == parse_admin_lines(lines, base, n - 1)
         IN IF Matches("ADMIN_PATTERN", lines[n])
            THEN Append(prev, AdminEvent(lines[n], base + n - 1))
            ELSE prev

\* last_processed_index of the loops of parse_admin_file and parse_sentry_file:
\* set on every line with index > last_line_idx.
LastScanned(lines, last_line_idx) ==
    IF NewLines(lines, last_line_idx) = <<>> THEN last_line_idx ELSE Len(lines) - 1

parse_admin_file(lines, log_file, cp, cpFail) ==
    LET file_size == FileSize(lines)
        last_line_idx == IF Rotated(cp, log_file, file_size) THEN -1 ELSE cp.last_line
        new_lines == NewLines(lines, last_line_idx)
        last_processed_index == LastScanned(lines, last_line_idx)
        entries == parse_admin_lines(new_lines, last_line_idx + 1, Len(new_lines))
    IN IF last_processed_index > last_line_idx
       THEN IF cpFail
            THEN ParseResult(<<>>, cp, last_line_idx)          \* except: return []
            ELSE ParseResult(entries,
                     update_parsed_checkpoint(cp, log_file, last_processed_index,
                                              file_size, FALSE),
                     last_line_idx)
       ELSE ParseResult(entries, cp, last_line_idx)

\* --------------------------------------------------------- parse_sentry_file
SentryEvent(line, idx) ==
    Event("sentry", line.ts, line.sid, 0, line.val, line.num, line.pos, 0, 0, "NONE", idx)

RECURSIVE SentryMatched(_, _, _)
SentryMatched(lines, base, n) ==
    IF n = 0 THEN <<>>
    ELSE LET prev == SentryMatched(lines, base, n - 1)
             line == lines[n]
         IN IF line.kind # "blank" /\ Matches("SENTRY_DESTROY_RE", line)
            THEN Append(prev, SentryEvent(line, base + n - 1))
            ELSE prev

parse_sentry_file(lines, log_file, cp, cpFail) ==
    LET file_size == FileSize(lines)
        last_line_idx == IF Rotated(cp, log_file, file_size) THEN -1 ELSE cp.last_line
        new_lines == NewLines(lines, last_line_idx)
        last_processed_index == LastScanned(lines, last_line_idx)
        matched == SentryMatched(new_lines, last_line_idx + 1, Len(new_lines))
    IN IF last_processed_index > last_line_idx
       THEN ParseResult(matched,
                update_parsed_checkpoint(cp, log_file, last_processed_index,
                                         file_size, cpFail),
                last_line_idx)
       ELSE ParseResult(matched, cp, last_line_idx)

\* The scan of the file raises at its line k (1-based) after the lines before
\* it were read: every parser catches the exception after its loop's work so
\* far and skips update_parsed_checkpoint.  parse_log_file and
\* parse_sentry_file return the entries collected so far, the other parsers [].
ParseRaises(log_type, lines, log_file, cp, k) ==
    LET file_size == FileSize(lines)
        rotated == IF log_type \in {"chat", "login"}
                   THEN RotatedLog(cp, log_file, file_size)
                   ELSE Rotated(cp, log_file, file_size)
        last_line_idx == IF rotated THEN -1 ELSE cp.last_line
        read == SubSeq(lines, last_line_idx + 2, k - 1)
    IN CASE log_type \in {"chat", "login"} ->
                ParseResult(ScanLog(lines, log_type, last_line_idx, k - 1).entries,
                            cp, last_line_idx)
         [] log_type = "sentry" ->
                ParseResult(SentryMatched(read, last_line_idx + 1, Len(read)),
                            cp, last_line_idx)
         [] OTHER -> ParseResult(<<>>, cp, last_line_idx)

\* The parser a downloader hands a file of log_type to.
Parse(log_type, lines, log_file, cp, cpFail) ==
    CASE log_type \in {"chat", "login"} -> parse_log_file(lines, log_file, log_type, cp, cpFail)
      [] log_type = "kill" -> parse_kill_lines_with_checkpoint(lines, log_file, cp, cpFail)
      [] log_type = "admin" -> parse_admin_file(lines, log_file, cp, cpFail)
      [] log_type = "sentry" -> parse_sentry_file(lines, log_file, cp, cpFail)

\* ============================================================ the datastore
\* db: [facts, logins, pstats, wstats, pending].  facts is the fact table of the
\* behaviour's log type (chat_logs, kill_logs, admin_logs or sentry_logs), in
\* insertion order.  Every connection is opened with autocommit on
\* (SYNC_DB_CONFIG), so each statement is durable when it returns and
\* commit() / rollback() change nothing.
\* The steam ids and the weapons that occur in the lines of the model.
Players == {1, 2}
Weapons == {1, 2}

\* kills / deaths as the pair <<numerator, denominator>>
KdRatio(kills, deaths) == IF deaths = 0 THEN <<kills, 1>> ELSE <<kills, deaths>>

NoPlayer ==
    [exists |-> FALSE, kills |-> 0, deaths |-> 0, longest_kill |-> 0,
     favorite_weapon |-> NoneVal, kd_ratio |-> <<0, 1>>, sentry_kills |-> 0,
     discord_id |-> NoneVal]

\* A row as the INSERTs create it: kills 0, deaths 0, longest_kill 0,
\* favorite_weapon NULL, kd_ratio 0.
NewPlayer == [NoPlayer EXCEPT !.exists = TRUE]

NoWeaponRow == [kills |-> 0, longest_kill |-> 0, total_distance |-> 0, last_kill_ts |-> T0]

NoLogin == [status |-> "none", pos |-> 0, last_seen |-> T0]

NoPending == [exists |-> FALSE, linked |-> FALSE, discord_id |-> NoneVal]

EmptyDb ==
    [facts |-> <<>>,
     logins |-> [p \in Players |-> NoLogin],
     pstats |-> [p \in Players |-> NoPlayer],
     wstats |-> [p \in Players |-> [w \in Weapons |-> NoWeaponRow]],
     pending |-> NoPending]

Greatest(a, b) == IF a >= b THEN a ELSE b

TsLess(a, b) == a[1] < b[1] \/ (a[1] = b[1] /\ a[2] < b[2])

\* player_upsert_sql: INSERT ... ON DUPLICATE KEY UPDATE username
player_upsert(ps, sid) == IF ps[sid].exists THEN ps ELSE [ps EXCEPT ![sid] = NewPlayer]

\* inc_deaths_sql
inc_deaths(ps, sid) ==
    IF ps[sid].exists THEN [ps EXCEPT ![sid].deaths = @ + 1] ELSE ps

\* inc_kills with longest_kill set to the distance of this kill.
inc_killsLastDistance(ps, sid, dist_val) ==
    IF ps[sid].exists
    THEN [ps EXCEPT ![sid].kills = @ + 1, ![sid].longest_kill = dist_val]
    ELSE ps

\* inc_kills_sql
inc_kills(ps, sid, dist_val) ==
    IF ps[sid].exists
    THEN [ps EXCEPT ![sid].kills = @ + 1, ![sid].longest_kill = Greatest(@, dist_val)]
    ELSE ps

\* kd_sql
kd_update(ps, sid) ==
    IF ps[sid].exists
    THEN [ps EXCEPT ![sid].kd_ratio = KdRatio(ps[sid].kills, ps[sid].deaths)]
    ELSE ps

\* weapon_upsert_sql whose ON DUPLICATE KEY UPDATE leaves kills as it is.
weapon_upsertKeepsKills(ws, sid, weapon, dist_val, ts) ==
    IF ws[sid][weapon].kills = 0
    THEN [ws EXCEPT ![sid][weapon] =
            [kills |-> 1, longest_kill |-> dist_val, total_distance |-> dist_val,
             last_kill_ts |-> ts]]
    ELSE [ws EXCEPT ![sid][weapon] =
            [kills |-> @.kills,
             longest_kill |-> Greatest(@.longest_kill, dist_val),
             total_distance |-> @.total_distance + dist_val,
             last_kill_ts |-> ts]]

\* weapon_upsert_sql; a row exists iff its kills are positive
weapon_upsert(ws, sid, weapon, dist_val, ts) ==
    IF ws[sid][weapon].kills = 0
    THEN [ws EXCEPT ![sid][weapon] =
            [kills |-> 1, longest_kill |-> dist_val, total_distance |-> dist_val,
             last_kill_ts |-> ts]]
    ELSE [ws EXCEPT ![sid][weapon] =
            [kills |-> @.kills + 1,
             longest_kill |-> Greatest(@.longest_kill, dist_val),
             total_distance |-> @.total_distance + dist_val,
             last_kill_ts |-> ts]]

\* SortsBefore with ORDER BY kills DESC alone.
SortsBeforeKillsOnly(a, b) == a.kills > b.kills

\* ORDER BY kills DESC, longest_kill DESC, last_kill_ts DESC: a sorts before b
SortsBefore(a, b) ==
    \/ a.kills > b.kills
    \/ a.kills = b.kills /\ a.longest_kill > b.longest_kill
    \/ a.kills = b.kills /\ a.longest_kill = b.longest_kill
          /\ TsLess(b.last_kill_ts, a.last_kill_ts)

\* The rows LIMIT 1 may return: those no other row sorts before.
FirstRows(ws, sid) ==
    {w \in Weapons : ws[sid][w].kills > 0
        /\ \A v \in Weapons : ws[sid][v].kills > 0 => ~SortsBefore(ws[sid][v], ws[sid][w])}

\* fav_weapon_sql.  Rows equal in all three sort keys come in an order SQL
\* leaves open; tie (an order of the weapons) is the order the server takes.
fav_weapon(ps, ws, sid, tie) ==
    LET first == FirstRows(ws, sid)
    IN IF ps[sid].exists /\ first # {}
       THEN [ps EXCEPT ![sid].favorite_weapon =
                tie[CHOOSE i \in 1..Len(tie) :
                        tie[i] \in first /\ \A j \in 1..(i - 1) : tie[j] \notin first]]
       ELSE ps

TieOrders ==
    {t \in [1..Cardinality(Weapons) -> Weapons] : \A w \in Weapons : \E i \in DOMAIN t : t[i] = w}

\* dist_val = float(dist) if dist is not None else 0.0
DistVal(dist) == IF dist = NoneVal THEN 0 ELSE dist

\* ApplyVictim with kd_sql left out.
ApplyVictimNoKd(st, e) ==
    IF e.sid2 # 0
    THEN [st EXCEPT !.pstats = inc_deaths(player_upsert(@, e.sid2), e.sid2)]
    ELSE st

\* The victim's statements of one event of the loop of save_kills_and_update_stats.
ApplyVictim(st, e) ==
    IF e.sid2 # 0
    THEN [st EXCEPT !.pstats = kd_update(inc_deaths(player_upsert(@, e.sid2), e.sid2), e.sid2)]
    ELSE st

\* ApplyKiller with the suicide test left out of the kill count.
ApplyKillerCountsSuicide(st, e, tie) ==
    IF e.sid = 0 THEN st
    ELSE IF e.tag = "SUICIDE"
    THEN [st EXCEPT !.pstats =
            kd_update(inc_kills(player_upsert(@, e.sid), e.sid, DistVal(e.num)), e.sid)]
    ELSE LET ps1 == inc_kills(player_upsert(st.pstats, e.sid), e.sid, DistVal(e.num))
             ws1 == weapon_upsert(st.wstats, e.sid, e.val, DistVal(e.num), e.ts)
         IN [st EXCEPT !.pstats = kd_update(fav_weapon(ps1, ws1, e.sid, tie), e.sid),
                       !.wstats = ws1]

\* The killer's statements; skipped for a suicide.
ApplyKiller(st, e, tie) ==
    IF e.tag = "SUICIDE" \/ e.sid = 0 THEN st
    ELSE LET ps1 == inc_kills(player_upsert(st.pstats, e.sid), e.sid, DistVal(e.num))
             ws1 == weapon_upsert(st.wstats, e.sid, e.val, DistVal(e.num), e.ts)
         IN [st EXCEPT !.pstats = kd_update(fav_weapon(ps1, ws1, e.sid, tie), e.sid),
                       !.wstats = ws1]

ApplyKillEvent(st, e, tie) == ApplyKiller(ApplyVictim(st, e), e, tie)

\* The loop over the first n events.
RECURSIVE ApplyKillEvents(_, _, _, _)
ApplyKillEvents(st, events, n, tie) ==
    IF n = 0 THEN st
    ELSE ApplyKillEvent(ApplyKillEvents(st, events, n - 1, tie), events[n], tie)

\* What a save did: the datastore after it, the line indexes of the events
\* whose rows were written, and whether it raised to its caller.
IdxOf(events, n) == {events[i].idx : i \in 1..n}

Saved(db, done, raised) == [db |-> db, done |-> done, raised |-> raised]

\* The statements of a batch that can raise: fault "insert" is the executemany
\* of the fact rows, fault "event" with k the statements of the k-th event (or
\* the k-th UPDATE), fault "none" no error.
\* How many of the n events are applied before the error.
EventsBeforeFault(n, fault, k) == IF fault = "event" THEN k - 1 ELSE n

\* save_kills_and_update_stats followed by the caller's conn.commit(): the
\* kill_logs rows are inserted in one statement, then the aggregates event by
\* event.  With autocommit on, an error at event k leaves the rows and the
\* aggregate changes of the events before k in the store.
save_kills_and_update_stats(db, events, fault, k, tie) ==
    IF events = <<>> THEN Saved(db, {}, FALSE)
    ELSE IF fault = "insert" THEN Saved(db, {}, TRUE)
    ELSE LET n == EventsBeforeFault(Len(events), fault, k)
             st == ApplyKillEvents(db, events, n, tie)
         IN Saved([st EXCEPT !.facts = db.facts \o events], IdxOf(events, Len(events)),
                  fault = "event")

\* ------------------------------------------------------------ chat messages
\* The message holds a registration token (REG_CODE_RE); message 2 holds the
\* token of the one pending_links row of the model.
HasRegCode(msg) == msg = 2

handle_registration_in_chatRelinks(db, e) ==
    IF ~HasRegCode(e.val) \/ e.sid = 0 THEN db
    ELSE IF ~db.pending.exists THEN db
    ELSE [db EXCEPT
            !.pstats[e.sid] =
                IF @.exists THEN [@ EXCEPT !.discord_id = db.pending.discord_id]
                ELSE [NewPlayer EXCEPT !.discord_id = db.pending.discord_id],
            !.pending.linked = TRUE]

handle_registration_in_chat(db, e) ==
    IF ~HasRegCode(e.val) \/ e.sid = 0 THEN db
    ELSE IF ~db.pending.exists THEN db
    ELSE IF db.pending.linked THEN db
    ELSE [db EXCEPT
            !.pstats[e.sid] =
                IF @.exists THEN [@ EXCEPT !.discord_id = db.pending.discord_id]
                ELSE [NewPlayer EXCEPT !.discord_id = db.pending.discord_id],
            !.pending.linked = TRUE]

RECURSIVE SaveChatEntries(_, _, _)
SaveChatEntries(db, entries, n) ==
    IF n = 0 THEN db
    ELSE LET prev == SaveChatEntries(db, entries, n - 1)
         IN handle_registration_in_chat(
                [prev EXCEPT !.facts = Append(@, entries[n])], entries[n])

\* The error of entry k is caught and logged; rollback() undoes nothing.
save_chats_to_mysql(db, entries, fault, k) ==
    IF entries = <<>> THEN Saved(db, {}, FALSE)
    ELSE LET n == EventsBeforeFault(Len(entries), fault, k)
         IN Saved(SaveChatEntries(db, entries, n), IdxOf(entries, n), FALSE)

\* ------------------------------------------------------------------- logins
LoginStatus(state) == IF state = 1 THEN "logged in" ELSE "logged out"

RECURSIVE UpsertLogins(_, _, _)
UpsertLogins(logins, entries, n) ==
    IF n = 0 THEN logins
    ELSE LET e == entries[n]
         IN [UpsertLogins(logins, entries, n - 1) EXCEPT
                ![e.sid] = [status |-> LoginStatus(e.val), pos |-> e.pos, last_seen |-> e.ts]]

\* One executemany of the upsert; its error goes to the caller.
save_logins_to_mysql(db, entries, fault) ==
    IF entries = <<>> THEN Saved(db, {}, FALSE)
    ELSE IF fault = "insert" THEN Saved(db, {}, TRUE)
    ELSE Saved([db EXCEPT !.logins = UpsertLogins(@, entries, Len(entries))],
               IdxOf(entries, Len(entries)), FALSE)

\* -------------------------------------------------------------------- admin
save_admin_logs_to_mysql(db, entries, fault) ==
    IF entries = <<>> THEN Saved(db, {}, FALSE)
    ELSE IF fault = "insert" THEN Saved(db, {}, TRUE)
    ELSE Saved([db EXCEPT !.facts = @ \o entries], IdxOf(entries, Len(entries)), FALSE)

\* ------------------------------------------------------------------- sentry
\* INSERT IGNORE: the row is dropped when sentry_logs holds an equal one.
SentryDuplicate(facts, e) == \E i \in 1..Len(facts) : LineKey(facts[i]) = LineKey(e)

RECURSIVE InsertIgnore(_, _, _)
InsertIgnore(facts, entries, n) ==
    IF n = 0 THEN facts
    ELSE LET prev == InsertIgnore(facts, entries, n - 1)
         IN IF SentryDuplicate(prev, entries[n]) THEN prev ELSE Append(prev, entries[n])

\* counts: attacker -> events of the batch; its keys in insertion order
RECURSIVE SentryKeys(_, _)
SentryKeys(entries, n) ==
    IF n = 0 THEN <<>>
    ELSE LET prev == SentryKeys(entries, n - 1)
         IN IF entries[n].sid # 0 /\ ~InSeq(entries[n].sid, prev)
            THEN Append(prev, entries[n].sid)
            ELSE prev

SentryCount(entries, sid) == Cardinality({i \in 1..Len(entries) : entries[i].sid = sid})

\* up_sql for the first n keys of counts; an UPDATE changes existing rows only
RECURSIVE SentryUpdates(_, _, _, _)
SentryUpdates(ps, entries, keys, n) ==
    IF n = 0 THEN ps
    ELSE LET prev == SentryUpdates(ps, entries, keys, n - 1)
             sid == keys[n]
         IN IF prev[sid].exists
            THEN [prev EXCEPT ![sid].sentry_kills = @ + SentryCount(entries, sid)]
            ELSE prev

save_sentry_logs_to_mysql(db, entries, increment_stats, fault, k) ==
    IF entries = <<>> THEN Saved(db, {}, FALSE)
    ELSE IF fault = "insert" THEN Saved(db, {}, TRUE)
    ELSE LET keys == SentryKeys(entries, Len(entries))
             n == EventsBeforeFault(Len(keys), fault, k)
             db1 == [db EXCEPT !.facts = InsertIgnore(@, entries, Len(entries))]
             new == {db1.facts[i].idx : i \in (Len(db.facts) + 1)..Len(db1.facts)}
         IN IF increment_stats
            THEN Saved([db1 EXCEPT !.pstats = SentryUpdates(@, entries, keys, n)],
                       new, fault = "event")
            ELSE Saved(db1, new, FALSE)

\* The save a downloader calls for the events of a file of log_type.
Save(log_type, db, events, increment_stats, fault, k, tie) ==
    CASE log_type = "chat" -> save_chats_to_mysql(db, events, fault, k)
      [] log_type = "login" -> save_logins_to_mysql(db, events, fault)
      [] log_type = "kill" -> save_kills_and_update_stats(db, events, fault, k, tie)
      [] log_type = "admin" -> save_admin_logs_to_mysql(db, events, fault)
      [] log_type = "sentry" ->
            save_sentry_logs_to_mysql(db, events, increment_stats, fault, k)

\* The statements of the save of log_type that can raise for this batch.
InsertCanFail(log_type, events) ==
    events # <<>> /\ log_type \in {"login", "kill", "admin", "sentry"}

EventFaultPoints(log_type, events, increment_stats) ==
    CASE log_type \in {"chat", "kill"} -> Len(events)
      [] log_type = "sentry" ->
            IF increment_stats THEN Len(SentryKeys(events, Len(events))) ELSE 0
      [] OTHER -> 0

\* ======================================================== transport selection
\* A host is its lower-cased name; a port is the number of server_settings.
AIOFTP_BACKOFF_SECONDS == 86400
POLL_SECONDS == 20

MaxTargets == 2      \* targets with FTP configured

Targets == 1..MaxTargets
Hosts == {"game.example.net", "sftp.example.net"}
Ports == {21, 22}
Transports == {"sftp", "aioftp", "safe_ftp"}

\* "sftp" in host
HostHintsSftp(host) == host = "sftp.example.net"

\* _choose_transport with the host never looked at.
choose_transport_by_port(host, port) == IF port = 22 THEN "sftp" ELSE "ftp"

\* _choose_transport
choose_transport(host, port) ==
    IF HostHintsSftp(host) THEN "sftp"
    ELSE IF port = 22 THEN "sftp"
    ELSE "ftp"

\* What an attempt ended with: "ok", asyncio.wait_for's timeout, an error of
\* the transport, the parser or the datastore, or the EPSV/PASV mismatch.
SftpOutcomes == {"ok", "timeout", "error"}
AioftpOutcomes == {"ok", "timeout", "error", "incompatible"}
SafeFtpOutcomes == {"ok", "error"}

\* _aioftp_known_incompatible
aioftp_known_incompatible(exc) == exc = "incompatible"

\* The backoff deadline with the one hour of WARN_SUPPRESS_SECONDS.
BackoffDeadlineOfWarning(t) == t + 3600

\* time.time() + AIOFTP_BACKOFF_SECONDS
BackoffDeadline(t) == t + AIOFTP_BACKOFF_SECONDS

\* preferred without the test of the backoff window.
PreferredIgnoringBackoff(pref, until, t) == pref

\* preferred after the test of the backoff window; inside the window the
\* entry of TRANSPORT_PREF is set to it as well.
Preferred(pref, until, t) == IF until > t THEN "safe_ftp" ELSE pref

\* The task of a target: the transport tried first and how it ended, how the
\* safe_ftp fallback ended ("none": not tried), the transport the download
\* completed through, and whether an exception left process_guild.
TaskOf(pc, first, err, fallback, completed, raised) ==
    [pc |-> pc, first |-> first, err |-> err, fallback |-> fallback,
     completed |-> completed, raised |-> raised]

NoTask == TaskOf("idle", "none", "none", "none", "none", FALSE)
PendingTask == TaskOf("pending", "none", "none", "none", "none", FALSE)

\* The outer handler with the exception raised again.
ReraiseException(first, err, fallback) == TaskOf("done", first, err, fallback, "none", TRUE)

\* except Exception: lg.exception(...); return
ExceptException(first, err, fallback) == TaskOf("done", first, err, fallback, "none", FALSE)

GuildResult(pref, until, t) == [pref |-> pref, until |-> until, task |-> t]

\* process_guild for a target with entry pref of TRANSPORT_PREF and entry
\* until of AIOFTP_BACKOFF_UNTIL at time t.
\* TRANSPORT_PREF[guild_id] = <the transport whose download returned>
RememberTransportKeepsOld(preferred, completed) == preferred

RememberTransport(preferred, completed) == completed

process_guild(pref, until, t, host, port, sftpOut, aioOut, safeOut) ==
    LET preferred == Preferred(pref, until, t)
        transport == IF preferred # "none" THEN preferred ELSE choose_transport(host, port)
    IN IF transport = "sftp"
       THEN IF sftpOut = "ok"
            THEN GuildResult(RememberTransport(preferred, "sftp"), until,
                             TaskOf("done", "sftp", "ok", "none", "sftp", FALSE))
            ELSE GuildResult(preferred, until, ExceptException("sftp", sftpOut, "none"))
       ELSE IF preferred = "safe_ftp"
       THEN IF safeOut = "ok"
            THEN GuildResult(preferred, until,
                             TaskOf("done", "safe_ftp", "ok", "none", "safe_ftp", FALSE))
            ELSE GuildResult(preferred, until, ExceptException("safe_ftp", safeOut, "none"))
       ELSE IF aioOut = "ok"
       THEN GuildResult(RememberTransport(preferred, "aioftp"), until,
                        TaskOf("done", "aioftp", "ok", "none", "aioftp", FALSE))
       ELSE LET until1 == IF aioftp_known_incompatible(aioOut)
                          THEN BackoffDeadline(t) ELSE until
            IN IF safeOut = "ok"
               THEN GuildResult(RememberTransport(preferred, "safe_ftp"), until1,
                                TaskOf("done", "aioftp", aioOut, "ok", "safe_ftp", FALSE))
               ELSE GuildResult(preferred, until1, ExceptException("aioftp", aioOut, safeOut))

\* ================================================================== state
VARIABLES
    ltype,          \* the log type the behaviour is about
    plines,         \* parser specifications: the cached file / the batch
    run,            \* parser specifications: parser runs made so far
    res,            \* parser specifications: what the last run returned
    cp,             \* parsed_logs row of (target, ltype)
    db,             \* the datastore: fact table, login_logs, aggregates, pending_links
    remote,         \* the files of ltype in the remote directory, by name
    cached,         \* size of the local copy of each file, NoneVal: no copy
    postSentries,   \* server_settings.post_sentries of the target
    rotations,      \* truncations of remote files so far
    written,        \* lines the game server has written so far
    persisted,      \* per file and line index: how often its event was persisted
    last,           \* the fault of the latest save or file step and its batch
    now,            \* time.time(), in seconds
    tick,           \* run_downloader: tick
    phase,          \* run_downloader: "scanning" between create_task and gather's return
    guilds,         \* get_guild_rows(): host and port of each configured target
    TRANSPORT_PREF,         \* remembered transport of each target, "none": no entry
    AIOFTP_BACKOFF_UNTIL,   \* backoff deadline of each target, 0: no entry
    task,           \* the process_guild task of each target in the tick
    flight,         \* the download coroutine of the target: where it is in its file loop
    ROLLING_EDIT_LOCKS,     \* updater: the lock cached for each (guild, settings column)
    lock,           \* updater: each asyncio.Lock made: its owner and its queue of waiters
    call,           \* updater: each upsert_rolling_embed call: where it is, its key and lock
    rolling_message,        \* server_settings: the message id stored in each settings column
    LAST_KILL_ID,   \* updater: id of the last kill_logs row handled, per guild
    kill_logs,      \* the largest id of the kill_logs rows of each guild
    posted,         \* the ids of the kill_logs rows sent to the kill channel, per guild
    unsent,         \* the ids of the rows whose send raised, per guild
    period,         \* the running PvP period of the guild
    pvp_payouts,    \* the period starts that have a pvp_payouts row
    cash            \* per period start and player: how often its prize was added to cash

vars == <<ltype, plines, run, res, cp, db, remote, cached, postSentries, rotations,
          written, persisted, last, now, tick, phase, guilds, TRANSPORT_PREF,
          AIOFTP_BACKOFF_UNTIL, task, flight, ROLLING_EDIT_LOCKS, lock, call,
          rolling_message, LAST_KILL_ID, kill_logs, posted, unsent, period, pvp_payouts,
          cash>>

fileVars == <<ltype, plines, run, res, cp, db, remote, cached, postSentries, rotations,
              written, persisted, last>>
netVars == <<now, tick, phase, guilds, TRANSPORT_PREF, AIOFTP_BACKOFF_UNTIL, task>>

lockVars == <<ROLLING_EDIT_LOCKS, lock, call, rolling_message>>
feedVars == <<LAST_KILL_ID, kill_logs, posted, unsent>>
payVars == <<period, pvp_payouts, cash>>
updVars == <<lockVars, feedVars, payVars>>

parseVars == <<plines, run, res>>
pipeVars == <<remote, cached, postSentries, rotations, written, persisted>>

MaxWritten == 3      \* lines written to the remote files in one behaviour
MaxRotations == 1    \* truncations of remote files in one behaviour
MaxFacts == 3        \* kill events persisted in one behaviour of StatsSpec

NoStep == [fault |-> "none", k |-> 0, events |-> <<>>]

\* at: "list" (awaiting the listing or a stat), "fetching" (awaiting the blocks of
\* file), "parsed" (the parser returned events, the save is the next statement),
\* "cancelled" (CancelledError was thrown into the coroutine).
FlightOf(at, file, events) == [at |-> at, file |-> file, events |-> events]

NoFlight == FlightOf("list", NoFile, <<>>)

PipeIdle ==
    /\ remote = [f \in FileNames |-> <<>>]
    /\ cached = [f \in FileNames |-> NoneVal]
    /\ postSentries = FALSE
    /\ rotations = 0
    /\ written = 0
    /\ persisted = [f \in FileNames |-> [i \in 0..(MaxWritten - 1) |-> 0]]

StoreIdle == db = EmptyDb /\ last = NoStep

MaxTicks == 3        \* ticks after which the clock of the model stands still

Guild(host, port) == [host |-> host, port |-> port]

\* ------------------------------------------------------------- the updater
MaxCalls == 3        \* upsert_rolling_embed calls in one behaviour
MaxRows == 4         \* kill_logs rows of the guild in one behaviour
MaxPeriods == 3      \* PvP periods that begin in one behaviour
MaxAwards == 2       \* times a prize is added to a player's cash for one period

Calls == 1..MaxCalls
\* (guild_id, settings_column): a guild's chat_message, a guild's pvp_message
SettingsKeys == {"chat_message", "pvp_message"}

\* An asyncio.Lock: the call that holds it (NoneVal: unlocked) and the calls
\* that wait for it, in the order they came.
LockOf(owner, waiters) == [owner |-> owner, waiters |-> waiters]
FreeLock == LockOf(NoneVal, <<>>)

\* Lock.acquire: taken at once when it is unlocked and nobody waits.
acquire(l, c) ==
    IF l.owner = NoneVal /\ l.waiters = <<>> THEN LockOf(c, <<>>)
    ELSE LockOf(l.owner, Append(l.waiters, c))

\* Lock.release: unlocked; the first waiter is woken.
release(l) == LockOf(NoneVal, l.waiters)

\* _get_rolling_lock that makes a new lock on every call.
get_rolling_lockUncached(locks, key, c) == [lock |-> c, locks |-> locks]

\* _get_rolling_lock: the cached lock of key, made on first use. The lock
\* made by call c is lock c.
get_rolling_lock(locks, key, c) ==
    IF locks[key] = NoneVal
    THEN [lock |-> c, locks |-> [locks EXCEPT ![key] = c]]
    ELSE [lock |-> locks[key], locks |-> locks]

\* An upsert_rolling_embed call: where it is, its key, its lock, its
\* message_id argument and afterwards the id of the message it sent.
CallOf(pc, key, lk, message_id) ==
    [pc |-> pc, key |-> key, lock |-> lk, message_id |-> message_id]
IdleCall == CallOf("idle", "none", NoneVal, NoneVal)

\* The statement a call is at once it holds the lock.
FirstStatement(message_id) == IF message_id # NoneVal THEN "fetch" ELSE "send"

\* What update_kill_feed leaves: the checkpoint, the ids sent, the ids whose
\* send raised.
FeedResult(last_id, sent, failed) == [last |-> last_id, sent |-> sent, failed |-> failed]

\* update_kill_feed with the checkpoint advanced after the send of a row.
update_kill_feedAdvancesAfterSend(last_id, max_id, k) ==
    IF last_id = NoneVal THEN FeedResult(max_id, <<>>, {})
    ELSE IF k = 0 THEN FeedResult(IF max_id > last_id THEN max_id ELSE last_id,
                                  [i \in 1..(max_id - last_id) |-> last_id + i], {})
    ELSE FeedResult(last_id + k - 1, [i \in 1..(k - 1) |-> last_id + i], {last_id + k})

\* update_kill_feed for a guild with checkpoint last_id (NoneVal: no entry)
\* and rows 1..max_id in kill_logs; k > 0: the send of the k-th row raises.
update_kill_feed(last_id, max_id, k) ==
    IF last_id = NoneVal THEN FeedResult(max_id, <<>>, {})
    ELSE IF k = 0 THEN FeedResult(IF max_id > last_id THEN max_id ELSE last_id,
                                  [i \in 1..(max_id - last_id) |-> last_id + i], {})
    ELSE FeedResult(last_id + k, [i \in 1..(k - 1) |-> last_id + i], {last_id + k})

\* fetch_top_pvp of the previous period: the ranking, each rank with a prize.
PrevTop == <<1, 2>>

\* What the payout part of update_pvp_board_and_optional_payout leaves: the
\* players whose cash was raised and whether the pvp_payouts row was written.
\* fault "board": the board update before it raises; "award" / "dm": award_cash
\* / try_send_pvp_payout_dm raises for rank k; "mark": mark_paid_period raises.
PayoutResult(awarded, marked) == [awarded |-> awarded, marked |-> marked]

pvp_payout(already, fault, k) ==
    IF fault = "board" \/ already THEN PayoutResult({}, FALSE)
    ELSE IF fault = "award" THEN PayoutResult({PrevTop[i] : i \in 1..(k - 1)}, FALSE)
    ELSE IF fault = "dm" THEN PayoutResult({PrevTop[i] : i \in 1..k}, FALSE)
    ELSE PayoutResult({PrevTop[i] : i \in 1..Len(PrevTop)}, fault = "none")

\* The updater has started: no lock is cached, no call is made, no kill row
\* is stored or posted, nothing is paid.
UpdIdle ==
    /\ ROLLING_EDIT_LOCKS = [key \in SettingsKeys |-> NoneVal]
    /\ lock = [c \in Calls |-> FreeLock]
    /\ call = [c \in Calls |-> IdleCall]
    /\ rolling_message = [key \in SettingsKeys |-> NoneVal]
    /\ LAST_KILL_ID = NoneVal
    /\ kill_logs = 0
    /\ posted = <<>>
    /\ unsent = {}
    /\ period = 1
    /\ pvp_payouts = {}
    /\ cash = [s \in 0..(MaxPeriods - 1) |-> [p \in Players |-> 0]]

\* The downloader process has started: both dictionaries are empty.
NetStart ==
    /\ now = 0
    /\ tick = 0
    /\ phase = "sleeping"
    /\ TRANSPORT_PREF = [g \in Targets |-> "none"]
    /\ AIOFTP_BACKOFF_UNTIL = [g \in Targets |-> 0]
    /\ task = [g \in Targets |-> NoTask]
    /\ flight = NoFlight
    /\ UpdIdle

NetIdle == NetStart /\ guilds = <<>>

FilesIdle ==
    /\ ltype = "kill"
    /\ cp = get_parsed_checkpoint_default
    /\ plines = <<>>
    /\ res = [events |-> <<>>, start |-> NoneVal, before |-> cp]
    /\ run = 0
    /\ PipeIdle /\ StoreIdle

SeqsUpTo(S, n) == UNION {[1..k -> S] : k \in 0..n}

\* ------------------------------------------ the parsers as pure functions
\* The file the parser is run on is file 1; the stored checkpoint is any row.
ParsedFile == 1

ParseAlphabet(log_type) ==
    CASE log_type = "chat" -> {ChatLine(T0, 1, 1), ChatLine(T1, 1, 1), NoiseLine}
      [] log_type = "login" -> {LoginLine(T0, 1, 1, 1), LoginLine(T0, 1, 2, 1), ShortLine}
      [] log_type = "kill" -> {SuicideLine(T0, 1, 1), SummaryLine(T1, 1, 2, 1, 1), NoiseLine}
      [] log_type = "admin" -> {AdminLine(T0, 1, 1), AdminLine(T1, 1, 2), NoiseLine}
      [] log_type = "sentry" -> {SentryLine(T0, 1, 1, 1, 1), BlankLine, NoiseLine}

Checkpoints ==
    {get_parsed_checkpoint_default}
        \cup {Checkpoint(f, l, s) : f \in FileNames, l \in -1..MaxLines, s \in 0..(MaxLines + 1)}

RunResult(r, before) ==
    [events |-> r.events, start |-> r.start, before |-> before]

ParseInit ==
    /\ ltype \in LogTypes
    /\ plines \in SeqsUpTo(ParseAlphabet(ltype), MaxLines)
    /\ cp \in Checkpoints
    /\ run = 0
    /\ res = RunResult(ParseResult(<<>>, cp, NoneVal), cp)
    /\ PipeIdle /\ StoreIdle /\ NetIdle

RunParser ==
    LET r == Parse(ltype, plines, ParsedFile, cp, FALSE)
    IN /\ res' = RunResult(r, cp)
       /\ cp' = r.cp
       /\ run' = run + 1
       /\ UNCHANGED <<ltype, plines, db, last, pipeVars, netVars, flight, updVars>>

ParseFirst == run = 0 /\ RunParser

ParseAgain == run = 1 /\ RunParser

ParseNext == ParseFirst \/ ParseAgain

ParseSpec == ParseInit /\ [][ParseNext]_vars

\* ------------------------------------- parse_kill_lines as a pure function
KillAlphabet ==
    {SummaryLine(T0, 1, 2, 1, 2), SummaryLine(T0, 2, 1, 2, NoneVal),
     DetailLine(T0, 1, 2, 1), DetailLine(T2, 2, 1, 2),
     SuicideLine(T0, 1, 1), BadJsonLine(T2), NoiseLine}

KillInit ==
    /\ ltype = "kill"
    /\ plines \in SeqsUpTo(KillAlphabet, MaxBatch)
    /\ cp = get_parsed_checkpoint_default
    /\ run = 0
    /\ res = RunResult(ParseResult(<<>>, cp, NoneVal), cp)
    /\ PipeIdle /\ StoreIdle /\ NetIdle

ParseKillBatch ==
    /\ run = 0
    /\ res' = RunResult(ParseResult(parse_kill_lines(plines, 0), cp, -1), cp)
    /\ run' = 1
    /\ UNCHANGED <<ltype, plines, cp, db, last, pipeVars, netVars, flight, updVars>>

KillNext == ParseKillBatch

KillSpec == KillInit /\ [][KillNext]_vars

\* ------------------------------------- persisting kill batches, on its own
\* Kill events as parse_kill_lines makes them.
KillOf(victim, killer, weapon, dist) ==
    BlockEvent(<<SummaryLine(T0, victim, killer, weapon, dist)>>, 0, 1, 0)

StatsEvents ==
    {SuicideEvent(SuicideLine(T0, 1, 1), 0), SuicideEvent(SuicideLine(T1, 2, 2), 0),
     KillOf(1, 2, 1, 2), KillOf(2, 1, 2, 1)}

Faults == {"none", "insert", "event"}

StatsInit ==
    /\ ltype = "kill"
    /\ cp = get_parsed_checkpoint_default
    /\ plines = <<>>
    /\ res = RunResult(ParseResult(<<>>, cp, NoneVal), cp)
    /\ run = 0
    /\ PipeIdle /\ StoreIdle /\ NetIdle

\* One call of save_kills_and_update_stats from a downloader.
PersistKills ==
    \E events \in SeqsUpTo(StatsEvents, MaxFacts) \ {<<>>}, fault \in Faults,
       k \in 1..MaxFacts, tie \in TieOrders :
        /\ Len(db.facts) + Len(events) <= MaxFacts
        /\ fault = "event" => k <= Len(events)
        /\ fault # "event" => k = 1
        /\ db' = save_kills_and_update_stats(db, events, fault, k, tie).db
        /\ last' = [fault |-> fault, k |-> k, events |-> events]
        /\ UNCHANGED <<ltype, parseVars, cp, pipeVars, netVars, flight, updVars>>

StatsNext == PersistKills

StatsSpec == StatsInit /\ [][StatsNext]_vars

\* ------------------------- kill batches persisted without a datastore error
KillAt(ts, victim, killer, weapon, dist) ==
    BlockEvent(<<SummaryLine(ts, victim, killer, weapon, dist)>>, 0, 1, 0)

\* Player 2 kills with two weapons at two distances and two times, player 1
\* kills once with no distance on the line, player 1 commits suicide.
StoreEvents ==
    {KillAt(T0, 1, 2, 1, 2), KillAt(T0, 1, 2, 2, 1), KillAt(T1, 1, 2, 2, 2),
     KillAt(T1, 2, 1, 1, NoneVal), SuicideEvent(SuicideLine(T0, 1, 1), 0)}

PersistKillsOk ==
    \E events \in SeqsUpTo(StoreEvents, MaxFacts) \ {<<>>}, tie \in TieOrders :
        /\ Len(db.facts) + Len(events) <= MaxFacts
        /\ db' = save_kills_and_update_stats(db, events, "none", 1, tie).db
        /\ last' = [fault |-> "none", k |-> 1, events |-> events]
        /\ UNCHANGED <<ltype, parseVars, cp, pipeVars, netVars, flight, updVars>>

KillStoreNext == PersistKillsOk

KillStoreSpec == StatsInit /\ [][KillStoreNext]_vars

\* ------------------------------------------------- chat batches, on their own
\* Chat entries as parse_log_file makes them: player 1 without a token, players
\* 1 and 2 with the token of the pending_links row.
ChatEntries ==
    {LogEntry(ChatLine(T0, 1, 1), 0), LogEntry(ChatLine(T0, 1, 2), 0),
     LogEntry(ChatLine(T0, 2, 2), 0)}

\* pending_links holds no row with the token, an open one or a completed one
\* (of Discord user 7); player 1 may have an aggregate row.
ChatInit ==
    /\ ltype = "chat"
    /\ cp = get_parsed_checkpoint_default
    /\ plines = <<>>
    /\ res = RunResult(ParseResult(<<>>, cp, NoneVal), cp)
    /\ run = 0
    /\ PipeIdle
    /\ \E pending \in {NoPending, [exists |-> TRUE, linked |-> FALSE, discord_id |-> 7],
                        [exists |-> TRUE, linked |-> TRUE, discord_id |-> 7]},
          p1 \in {NoPlayer, NewPlayer} :
           db = [EmptyDb EXCEPT !.pending = pending, !.pstats[1] = p1]
    /\ last = NoStep
    /\ NetIdle

\* One call of save_chats_to_mysql from a downloader; written counts the
\* entries handed to it so far.
PersistChats ==
    \E entries \in SeqsUpTo(ChatEntries, MaxWritten) \ {<<>>} :
        /\ written + Len(entries) <= MaxWritten
        /\ db' = save_chats_to_mysql(db, entries, "none", 1).db
        /\ last' = [fault |-> "none", k |-> 1, events |-> entries]
        /\ written' = written + Len(entries)
        /\ UNCHANGED <<ltype, parseVars, cp, remote, cached, postSentries, rotations,
                       persisted, netVars, flight, updVars>>

ChatNext == PersistChats

ChatSpec == ChatInit /\ [][ChatNext]_vars

\* ------------------------------------------ a login file parsed and persisted
\* Player 1 logs in, out and in again at one position within a minute; player
\* 2 logs in a minute later.
LoginAlphabet ==
    {LoginLine(T0, 1, 1, 1), LoginLine(T1, 1, 2, 1), LoginLine(<<0, 2>>, 1, 1, 1),
     LoginLine(T2, 2, 1, 2), ShortLine}

LoginInit ==
    /\ ltype = "login"
    /\ plines \in SeqsUpTo(LoginAlphabet, MaxLines)
    /\ cp = get_parsed_checkpoint_default
    /\ run = 0
    /\ res = RunResult(ParseResult(<<>>, cp, NoneVal), cp)
    /\ PipeIdle /\ StoreIdle /\ NetIdle

\* The login branch of a downloader: parse_log_file, then save_logins_to_mysql.
ParseAndSaveLogins ==
    LET r == parse_log_file(plines, ParsedFile, "login", cp, FALSE)
    IN /\ run = 0
       /\ res' = RunResult(r, cp)
       /\ cp' = r.cp
       /\ db' = save_logins_to_mysql(db, r.events, "none").db
       /\ last' = [fault |-> "none", k |-> 1, events |-> r.events]
       /\ run' = 1
       /\ UNCHANGED <<ltype, plines, pipeVars, netVars, flight, updVars>>

LoginNext == ParseAndSaveLogins

LoginSpec == LoginInit /\ [][LoginNext]_vars

\* ------------------------------------------------ sentry batches, on their own
\* Sentry events as parse_sentry_file makes them: two attackers, two times.
SentryEvents ==
    {SentryEvent(SentryLine(T0, 1, 1, 1, 1), 0), SentryEvent(SentryLine(T1, 1, 1, 1, 1), 0),
     SentryEvent(SentryLine(T0, 2, 1, 1, 1), 0)}

\* Player 1 has a player_statistics row, player 2 has none; post_sentries is
\* the flag of the target's server_settings row.
SentryInit ==
    /\ ltype = "sentry"
    /\ cp = get_parsed_checkpoint_default
    /\ plines = <<>>
    /\ res = RunResult(ParseResult(<<>>, cp, NoneVal), cp)
    /\ run = 0
    /\ remote = [f \in FileNames |-> <<>>]
    /\ cached = [f \in FileNames |-> NoneVal]
    /\ postSentries \in BOOLEAN
    /\ rotations = 0
    /\ written = 0
    /\ persisted = [f \in FileNames |-> [i \in 0..(MaxWritten - 1) |-> 0]]
    /\ db = [EmptyDb EXCEPT !.pstats[1] = NewPlayer]
    /\ last = NoStep
    /\ NetIdle

\* One call of save_sentry_logs_to_mysql from a downloader; written counts the
\* events handed to it so far.
PersistSentries ==
    \E entries \in SeqsUpTo(SentryEvents, MaxWritten) \ {<<>>} :
        /\ written + Len(entries) <= MaxWritten
        /\ db' = save_sentry_logs_to_mysql(db, entries, postSentries, "none", 1).db
        /\ last' = [fault |-> "none", k |-> 1, events |-> entries]
        /\ written' = written + Len(entries)
        /\ UNCHANGED <<ltype, parseVars, cp, remote, cached, postSentries, rotations,
                       persisted, netVars, flight, updVars>>

SentryNext == PersistSentries

SentrySpec == SentryInit /\ [][SentryNext]_vars

\* ------------------------------------------- the per-file pipeline of a target
\* One target, one log type; the files of the other log types of the target
\* have their own parsed_logs row and fact table.
PipeAlphabet(log_type) ==
    CASE log_type = "chat" -> {ChatLine(T0, 1, 1), NoiseLine}
      [] log_type = "login" -> {LoginLine(T0, 1, 1, 1), NoiseLine}
      [] log_type = "kill" -> {SuicideLine(T0, 1, 1), SummaryLine(T1, 1, 2, 1, 1)}
      [] log_type = "admin" -> {AdminLine(T0, 1, 1), NoiseLine}
      [] log_type = "sentry" -> {SentryLine(T0, 1, 1, 1, 1), NoiseLine}

PipeInit ==
    /\ ltype \in LogTypes
    /\ cp = get_parsed_checkpoint_default
    /\ plines = <<>>
    /\ res = RunResult(ParseResult(<<>>, cp, NoneVal), cp)
    /\ run = 0
    /\ remote = [f \in FileNames |-> <<>>]
    /\ cached = [f \in FileNames |-> NoneVal]
    /\ postSentries \in (IF ltype = "sentry" THEN BOOLEAN ELSE {FALSE})
    /\ rotations = 0
    /\ written = 0
    /\ persisted = [f \in FileNames |-> [i \in 0..(MaxWritten - 1) |-> 0]]
    /\ db = IF ltype = "sentry" THEN [EmptyDb EXCEPT !.pstats[1] = NewPlayer] ELSE EmptyDb
    /\ last = NoStep
    /\ NetIdle

\* The game server writes a line to a log file.
RemoteAppend ==
    \E f \in FileNames, line \in PipeAlphabet(ltype) :
        /\ written < MaxWritten
        /\ remote' = [remote EXCEPT ![f] = Append(@, line)]
        /\ written' = written + 1
        /\ UNCHANGED <<ltype, parseVars, cp, db, cached, postSentries, rotations,
                       persisted, last, netVars, flight, updVars>>

\* A remote file is truncated; its lines from then on are new lines.
RemoteTruncate ==
    \E f \in FileNames :
        /\ remote[f] # <<>>
        /\ rotations < MaxRotations
        /\ remote' = [remote EXCEPT ![f] = <<>>]
        /\ rotations' = rotations + 1
        /\ persisted' = [persisted EXCEPT ![f] = [i \in DOMAIN @ |-> 0]]
        /\ UNCHANGED <<ltype, parseVars, cp, db, cached, postSentries, written, last, netVars, flight, updVars>>

\* local_path.exists() and local_path.stat().st_size == size
SameSizeNever(local_size, size) == FALSE

SameSize(local_size, size) == local_size # NoneVal /\ local_size = size

\* The body of the loop of a downloader for one listed file f: skip it when the
\* local copy has the remote size, else fetch it, parse it and save its events.
\* fault "cp": update_parsed_checkpoint raises; "insert" / "event": the save does;
\* "parse": the scan of the parser raises at line k.
ProcessFile(f, fault, k, tie) ==
    LET lines == remote[f]
        r == IF fault = "parse" THEN ParseRaises(ltype, lines, f, cp, k)
             ELSE Parse(ltype, lines, f, cp, fault = "cp")
        sv == Save(ltype, db, r.events, postSentries,
                   IF fault \in {"cp", "parse"} THEN "none" ELSE fault, k, tie)
    IN /\ ~SameSize(cached[f], FileSize(lines))
       /\ fault = "parse" => k <= Len(lines) /\ r.start + 1 < k
       /\ fault = "cp" => Parse(ltype, lines, f, cp, FALSE).cp # cp
       /\ fault = "insert" => InsertCanFail(ltype, r.events)
       /\ fault = "event" => k <= EventFaultPoints(ltype, r.events, postSentries)
       /\ cached' = [cached EXCEPT ![f] = FileSize(lines)]
       /\ cp' = r.cp
       /\ db' = sv.db
       /\ persisted' = [persisted EXCEPT ![f] =
                           [i \in DOMAIN @ |-> IF i \in sv.done THEN @[i] + 1 ELSE @[i]]]
       /\ last' = [fault |-> fault, k |-> k, events |-> r.events]
       /\ UNCHANGED <<ltype, parseVars, remote, postSentries, rotations, written, netVars, flight, updVars>>

PassFile == \E f \in FileNames, tie \in TieOrders : ProcessFile(f, "none", 1, tie)

PassFileFault ==
    \E f \in FileNames, fault \in {"cp", "insert", "event"}, k \in 1..MaxWritten,
       tie \in TieOrders :
        /\ fault # "event" => k = 1
        /\ ProcessFile(f, fault, k, tie)

Next == RemoteAppend \/ RemoteTruncate \/ PassFile \/ PassFileFault

Spec == PipeInit /\ [][Next]_vars

\* A pass over file f in which the scan of the parser raises.
PassFileParseRaises ==
    \E f \in FileNames, k \in 1..MaxWritten, tie \in TieOrders :
        ProcessFile(f, "parse", k, tie)

RetryNext == RemoteAppend \/ PassFile \/ PassFileParseRaises

\* Remote files are only appended to; a parser can raise while it scans.
RetrySpec == PipeInit /\ [][RetryNext]_vars

\* Remote files are only appended to and no datastore call raises.
AppendNext == RemoteAppend \/ PassFile

AppendSpec == PipeInit /\ [][AppendNext]_vars

\* ------------------------------------------------- the entries of the listing
\* An entry name is a sequence of pieces of text; "x" is text that holds none
\* of the other pieces.  "sentry" followed by "_" reads "sentry_".
MaxNameTokens == 2   \* pieces of an entry name

NameTokens == {"chat_", "CHAT_", "login_", "kill_", "admin_", "sentry", "Sentry", "_", "x"}

EntryNames == UNION {[1..n -> NameTokens] : n \in 1..MaxNameTokens}

\* piece.lower()
Lower(piece) ==
    CASE piece = "CHAT_" -> "chat_"
      [] piece = "Sentry" -> "sentry"
      [] OTHER -> piece

\* text in fname
Contains(fname, text) == \E i \in 1..Len(fname) : fname[i] = text

\* fname.startswith(text)
StartsWith(fname, text) == fname[1] = text

\* "sentry" in fname.lower()
ContainsSentry(fname) == \E i \in 1..Len(fname) : Lower(fname[i]) = "sentry"

\* "sentry_" in fname.lower()
ContainsSentryUnderscore(fname) ==
    \E i \in 1..(Len(fname) - 1) : Lower(fname[i]) = "sentry" /\ fname[i + 1] = "_"

\* The test whose failure is `continue`.
ListedAsLog(fname) ==
    \/ \E t \in {"chat_", "login_", "kill_", "admin_"} : Contains(fname, t)
    \/ ContainsSentryUnderscore(fname)

\* The if / elif chain after the transfer: the log type whose parser gets the
\* file, "none" when no branch is taken.
ParserOf(fname) ==
    CASE StartsWith(fname, "chat_") -> "chat"
      [] StartsWith(fname, "login_") -> "login"
      [] StartsWith(fname, "kill_") -> "kill"
      [] StartsWith(fname, "admin_") -> "admin"
      [] OTHER -> IF ContainsSentry(fname) THEN "sentry" ELSE "none"

\* The downloader is at an entry of the listing that has no local copy.
ListingInit ==
    /\ ltype = "none"
    /\ cp = get_parsed_checkpoint_default
    /\ plines = <<>>
    /\ res = RunResult(ParseResult(<<>>, cp, NoneVal), cp)
    /\ run = 0
    /\ PipeIdle /\ StoreIdle
    /\ now = 0
    /\ tick = 1
    /\ phase = "scanning"
    /\ guilds = <<Guild("game.example.net", 21)>>
    /\ TRANSPORT_PREF = [g \in Targets |-> "none"]
    /\ AIOFTP_BACKOFF_UNTIL = [g \in Targets |-> 0]
    /\ task = [g \in Targets |-> IF g = 1 THEN PendingTask ELSE NoTask]
    /\ \E fname \in EntryNames : flight = FlightOf("list", fname, <<>>)
    /\ UpdIdle

\* The body of the loop for the entry: "skipped" (continue), "fetched" (local
\* copy written, no parser called) or "parsed" (handed to the parser of ltype).
HandleEntry ==
    LET fname == flight.file
    IN /\ flight.at = "list"
       /\ flight' = [flight EXCEPT !.at =
                        IF ~ListedAsLog(fname) THEN "skipped"
                        ELSE IF ParserOf(fname) = "none" THEN "fetched" ELSE "parsed"]
       /\ ltype' = IF ListedAsLog(fname) THEN ParserOf(fname) ELSE ltype
       /\ UNCHANGED <<parseVars, cp, db, pipeVars, last, netVars, updVars>>

ListingNext == HandleEntry

ListingSpec == ListingInit /\ [][ListingNext]_vars

\* ------------------------------------------ cancellation of the downloader task
\* _main_async cancels the downloader task; gather cancels the process_guild
\* tasks, and CancelledError is thrown into a coroutine where it awaits.
\* aioftp_download and asyncssh_sftp_download await the listing, the stat and
\* the transfer of a file; the parser and the save that follow are plain calls.
\* ftplib_safe_download runs in an executor thread that no cancellation
\* reaches: it ends with its loop over the listing.
AwaitPointsEveryStatement(transport) == {"list", "fetching", "parsed"}

AwaitPoints(transport) ==
    IF transport = "safe_ftp" THEN {"list"} ELSE {"list", "fetching"}

\* The transport of the pass in flight is the remembered one of target 1.
ShutdownInit ==
    /\ ltype \in LogTypes
    /\ cp = get_parsed_checkpoint_default
    /\ plines = <<>>
    /\ res = RunResult(ParseResult(<<>>, cp, NoneVal), cp)
    /\ run = 0
    /\ PipeIdle /\ StoreIdle
    /\ now = 0
    /\ tick = 1
    /\ phase = "scanning"
    /\ guilds = <<Guild("game.example.net", 21)>>
    /\ \E t \in Transports :
           TRANSPORT_PREF = [g \in Targets |-> IF g = 1 THEN t ELSE "none"]
    /\ AIOFTP_BACKOFF_UNTIL = [g \in Targets |-> 0]
    /\ task = [g \in Targets |-> IF g = 1 THEN PendingTask ELSE NoTask]
    /\ flight = NoFlight
    /\ UpdIdle

\* The size of listed file f differs from its local copy's: the transfer starts.
BeginFetch ==
    \E f \in FileNames :
        /\ flight.at = "list"
        /\ ~SameSize(cached[f], FileSize(remote[f]))
        /\ flight' = FlightOf("fetching", f, <<>>)
        /\ UNCHANGED <<ltype, parseVars, cp, db, pipeVars, last, netVars, updVars>>

\* The transfer ends and the parser runs: it writes the checkpoint and returns.
FetchedAndParsed ==
    LET f == flight.file
        r == Parse(ltype, remote[f], f, cp, FALSE)
    IN /\ flight.at = "fetching"
       /\ cached' = [cached EXCEPT ![f] = FileSize(remote[f])]
       /\ cp' = r.cp
       /\ flight' = FlightOf("parsed", f, r.events)
       /\ UNCHANGED <<ltype, parseVars, db, remote, postSentries, rotations, written,
                      persisted, last, netVars, updVars>>

\* The save of the events the parser returned; then the loop goes on.
SaveParsed ==
    \E tie \in TieOrders :
        LET f == flight.file
            sv == Save(ltype, db, flight.events, postSentries, "none", 1, tie)
        IN /\ flight.at = "parsed"
           /\ db' = sv.db
           /\ persisted' = [persisted EXCEPT ![f] =
                               [i \in DOMAIN @ |-> IF i \in sv.done THEN @[i] + 1 ELSE @[i]]]
           /\ last' = [fault |-> "none", k |-> 1, events |-> flight.events]
           /\ flight' = NoFlight
           /\ UNCHANGED <<ltype, parseVars, cp, remote, cached, postSentries, rotations,
                          written, netVars, updVars>>

\* CancelledError reaches the download; a transfer it interrupts leaves a local
\* copy of any size up to the remote one, or none when it had not been opened.
CancelDownloader ==
    /\ flight.at \in AwaitPoints(TRANSPORT_PREF[1])
    /\ flight' = [flight EXCEPT !.at = "cancelled"]
    /\ IF flight.at = "fetching"
       THEN \E n \in {cached[flight.file]} \cup (0..FileSize(remote[flight.file])) :
               cached' = [cached EXCEPT ![flight.file] = n]
       ELSE cached' = cached
    /\ UNCHANGED <<ltype, parseVars, cp, db, remote, postSentries, rotations, written,
                   persisted, last, netVars, updVars>>

ShutdownNext ==
    RemoteAppend \/ BeginFetch \/ FetchedAndParsed \/ SaveParsed \/ CancelDownloader

ShutdownSpec == ShutdownInit /\ [][ShutdownNext]_vars

\* --------------------------------------------------- the ticks of run_downloader
\* tasks = [create_task(process_guild(g, tick)) for g in guilds]
StartTick ==
    /\ phase = "sleeping"
    /\ phase' = "scanning"
    /\ tick' = IF tick < MaxTicks THEN tick + 1 ELSE tick
    /\ task' = [g \in Targets |-> IF g \in DOMAIN guilds THEN PendingTask ELSE NoTask]
    /\ UNCHANGED <<now, guilds, TRANSPORT_PREF, AIOFTP_BACKOFF_UNTIL, fileVars, flight, updVars>>

\* The task of target g runs process_guild.
ProcessGuild ==
    \E g \in DOMAIN guilds, sftpOut \in SftpOutcomes, aioOut \in AioftpOutcomes,
       safeOut \in SafeFtpOutcomes :
        LET r == process_guild(TRANSPORT_PREF[g], AIOFTP_BACKOFF_UNTIL[g], now,
                               guilds[g].host, guilds[g].port, sftpOut, aioOut, safeOut)
        IN /\ phase = "scanning"
           /\ task[g].pc = "pending"
           /\ TRANSPORT_PREF' = [TRANSPORT_PREF EXCEPT ![g] = r.pref]
           /\ AIOFTP_BACKOFF_UNTIL' = [AIOFTP_BACKOFF_UNTIL EXCEPT ![g] = r.until]
           /\ task' = [task EXCEPT ![g] = r.task]
           /\ UNCHANGED <<now, tick, phase, guilds, fileVars, flight, updVars>>

\* gather returning with the first task that is done.
gatherFirstCompleted(tasks, gs) == \E g \in gs : tasks[g].pc = "done"

\* await asyncio.gather(*tasks, return_exceptions=True): returns when every
\* task of the tick is done.
gather(tasks, gs) == \A g \in gs : tasks[g].pc = "done"

\* gather(*tasks, return_exceptions=True) returns, then asyncio.sleep: dt
\* seconds pass until the next tick.
EndTickAfter(dt) ==
    /\ phase = "scanning"
    /\ gather(task, DOMAIN guilds)
    /\ phase' = "sleeping"
    /\ now' = IF tick < MaxTicks THEN now + dt ELSE now
    /\ UNCHANGED <<tick, guilds, TRANSPORT_PREF, AIOFTP_BACKOFF_UNTIL, task, fileVars, flight, updVars>>

\* The next tick follows after POLL_SECONDS, or a day of ticks later.
EndTick == \E dt \in {POLL_SECONDS, AIOFTP_BACKOFF_SECONDS} : EndTickAfter(dt)

EndTickPoll == EndTickAfter(POLL_SECONDS)

\* The server_settings row of a target is edited between two ticks.
Reconfigure ==
    \E g \in DOMAIN guilds, host \in Hosts, port \in Ports :
        /\ phase = "sleeping"
        /\ guilds[g] # Guild(host, port)
        /\ guilds' = [guilds EXCEPT ![g] = Guild(host, port)]
        /\ UNCHANGED <<now, tick, phase, TRANSPORT_PREF, AIOFTP_BACKOFF_UNTIL, task, fileVars, flight, updVars>>

\* One configured target.
TransportInit ==
    /\ FilesIdle
    /\ NetStart
    /\ \E host \in Hosts, port \in Ports : guilds = <<Guild(host, port)>>

TransportNext == StartTick \/ ProcessGuild \/ EndTick \/ Reconfigure

\* run_downloader loops for ever and asyncio runs every task it created.
TransportSpec == TransportInit /\ [][TransportNext]_vars /\ WF_vars(TransportNext)

\* Two configured targets, both plain FTP servers.
TickInit ==
    /\ FilesIdle
    /\ NetStart
    /\ guilds = [g \in Targets |-> Guild("game.example.net", 21)]

TickNext == StartTick \/ ProcessGuild \/ EndTickPoll

TickSpec == TickInit /\ [][TickNext]_vars /\ WF_vars(TickNext)

\* get_server_counts() or get_guild_rows() raises at the start of a tick: the
\* exception is none of those run_downloader catches, so it ends the coroutine
\* and with it the downloader task that _main_async created once.
LoadConfigRaises ==
    /\ phase = "sleeping"
    /\ phase' = "raised"
    /\ tick' = IF tick < MaxTicks THEN tick + 1 ELSE tick
    /\ UNCHANGED <<now, guilds, TRANSPORT_PREF, AIOFTP_BACKOFF_UNTIL, task, fileVars, flight, updVars>>

LoaderNext == StartTick \/ ProcessGuild \/ EndTickPoll \/ LoadConfigRaises

\* Ticks whose configuration load can raise.
LoaderSpec == TickInit /\ [][LoaderNext]_vars /\ WF_vars(LoaderNext)

\* ------------------------------------- the tasks of a tick, await by await
\* process_guild up to its first await and from its last await on: the tasks
\* of the targets of a tick are interleaved between the two.
\* An assignment to the entry of guild_id with every entry assigned.
SetEntryForAll(entries, guild_id, value) == [h \in DOMAIN entries |-> value]

\* TRANSPORT_PREF[guild_id] = value, AIOFTP_BACKOFF_UNTIL[guild_id] = value
SetEntry(entries, guild_id, value) == [entries EXCEPT ![guild_id] = value]

\* What the aioftp pass ended with: the outcomes of the transport, or an
\* exception of a parser or of a save that aioftp_download calls for a file.
PassOutcomes == AioftpOutcomes \cup {"save_error"}

\* The task of target g runs to the await of its download: the entry of
\* TRANSPORT_PREF is read and, inside the backoff window, set to safe_ftp.
StartGuild ==
    \E g \in DOMAIN guilds :
        /\ phase = "scanning"
        /\ task[g].pc = "pending"
        /\ TRANSPORT_PREF' = SetEntry(TRANSPORT_PREF, g,
                                Preferred(TRANSPORT_PREF[g], AIOFTP_BACKOFF_UNTIL[g], now))
        /\ task' = [task EXCEPT ![g].pc = "running"]
        /\ UNCHANGED <<now, tick, phase, guilds, AIOFTP_BACKOFF_UNTIL, fileVars, flight, updVars>>

\* The download of target g returns or raises and process_guild runs to its end.
FinishGuild ==
    \E g \in DOMAIN guilds, sftpOut \in SftpOutcomes, aioOut \in PassOutcomes,
       safeOut \in SafeFtpOutcomes :
        LET r == process_guild(TRANSPORT_PREF[g], AIOFTP_BACKOFF_UNTIL[g], now,
                               guilds[g].host, guilds[g].port, sftpOut, aioOut, safeOut)
        IN /\ phase = "scanning"
           /\ task[g].pc = "running"
           /\ TRANSPORT_PREF' = SetEntry(TRANSPORT_PREF, g, r.pref)
           /\ AIOFTP_BACKOFF_UNTIL' = SetEntry(AIOFTP_BACKOFF_UNTIL, g, r.until)
           /\ task' = [task EXCEPT ![g] = r.task]
           /\ UNCHANGED <<now, tick, phase, guilds, fileVars, flight, updVars>>

InterleaveNext == StartTick \/ StartGuild \/ FinishGuild \/ EndTickPoll

\* Two plain-FTP targets whose tasks are interleaved at their awaits.
InterleaveSpec == TickInit /\ [][InterleaveNext]_vars /\ WF_vars(InterleaveNext)

\* ------------------------------------------ upsert_rolling_embed, await by await
\* A call is made for a key with the message id its caller read from the
\* settings row (the stored one, or none): the lock is looked up and acquired,
\* or the call queues for it.
EnterCall ==
    \E c \in Calls, key \in SettingsKeys :
      \E message_id \in {NoneVal, rolling_message[key]} :
        LET g == get_rolling_lock(ROLLING_EDIT_LOCKS, key, c)
            l == acquire(lock[g.lock], c)
        IN /\ call[c].pc = "idle"
           /\ \A d \in Calls : d < c => call[d].pc # "idle"
           /\ ROLLING_EDIT_LOCKS' = g.locks
           /\ lock' = [lock EXCEPT ![g.lock] = l]
           /\ call' = [call EXCEPT ![c] =
                          CallOf(IF l.owner = c THEN FirstStatement(message_id) ELSE "waiting",
                                 key, g.lock, message_id)]
           /\ UNCHANGED <<rolling_message, fileVars, netVars, flight, feedVars, payVars>>

\* The first waiter of an unlocked lock is woken and takes it.
WakeUp ==
    \E c \in Calls :
        /\ call[c].pc = "waiting"
        /\ lock[call[c].lock].owner = NoneVal
        /\ Head(lock[call[c].lock].waiters) = c
        /\ lock' = [lock EXCEPT ![call[c].lock] = LockOf(c, Tail(@.waiters))]
        /\ call' = [call EXCEPT ![c].pc = FirstStatement(call[c].message_id)]
        /\ UNCHANGED <<ROLLING_EDIT_LOCKS, rolling_message, fileVars, netVars, flight,
                       feedVars, payVars>>

\* msg = await channel.fetch_message(...): it returns, or raises and the call
\* goes on to send a new message.
FetchMessage ==
    \E c \in Calls, ok \in BOOLEAN :
        /\ call[c].pc = "fetch"
        /\ call' = [call EXCEPT ![c].pc = IF ok THEN "edit" ELSE "send"]
        /\ UNCHANGED <<ROLLING_EDIT_LOCKS, lock, rolling_message, fileVars, netVars, flight,
                       feedVars, payVars>>

\* await msg.edit(...): it returns and so does the call, releasing the lock;
\* or it raises and the call goes on to send a new message.
EditMessage ==
    \E c \in Calls, ok \in BOOLEAN :
        /\ call[c].pc = "edit"
        /\ call' = [call EXCEPT ![c].pc = IF ok THEN "done" ELSE "send"]
        /\ lock' = IF ok THEN [lock EXCEPT ![call[c].lock] = release(@)] ELSE lock
        /\ UNCHANGED <<ROLLING_EDIT_LOCKS, rolling_message, fileVars, netVars, flight,
                       feedVars, payVars>>

\* msg = await channel.send(...): the new message has the id of the call; an
\* exception leaves the call and releases the lock.
SendMessage ==
    \E c \in Calls, ok \in BOOLEAN :
        /\ call[c].pc = "send"
        /\ call' = [call EXCEPT ![c] = IF ok THEN [@ EXCEPT !.pc = "store", !.message_id = c]
                                              ELSE [@ EXCEPT !.pc = "done"]]
        /\ lock' = IF ok THEN lock ELSE [lock EXCEPT ![call[c].lock] = release(@)]
        /\ UNCHANGED <<ROLLING_EDIT_LOCKS, rolling_message, fileVars, netVars, flight,
                       feedVars, payVars>>

\* UPDATE server_settings SET <column> = msg.id; the call returns or raises,
\* releasing the lock.
StoreMessageId ==
    \E c \in Calls, ok \in BOOLEAN :
        /\ call[c].pc = "store"
        /\ rolling_message' = IF ok THEN [rolling_message EXCEPT ![call[c].key] = call[c].message_id]
                                    ELSE rolling_message
        /\ call' = [call EXCEPT ![c].pc = "done"]
        /\ lock' = [lock EXCEPT ![call[c].lock] = release(@)]
        /\ UNCHANGED <<ROLLING_EDIT_LOCKS, fileVars, netVars, flight, feedVars, payVars>>

LockInit == FilesIdle /\ NetIdle

LockNext ==
    EnterCall \/ WakeUp \/ FetchMessage \/ EditMessage \/ SendMessage \/ StoreMessageId

\* Calls of upsert_rolling_embed that overlap at their awaits.
LockSpec == LockInit /\ [][LockNext]_vars

\* --------------------------------------------------------------- the kill feed
\* save_kills_and_update_stats inserts rows: kill_logs gives them the next ids.
InsertKillRows ==
    \E n \in 1..MaxRows :
        /\ kill_logs + n <= MaxRows
        /\ kill_logs' = kill_logs + n
        /\ UNCHANGED <<LAST_KILL_ID, posted, unsent, fileVars, netVars, flight, lockVars, payVars>>

\* One call of update_kill_feed from run_updater_loop; the exception of a send
\* is caught by the loop.
KillFeedTick ==
    \E k \in 0..MaxRows :
        LET r == update_kill_feed(LAST_KILL_ID, kill_logs, k)
        IN /\ k > 0 => LAST_KILL_ID # NoneVal /\ LAST_KILL_ID + k <= kill_logs
           /\ LAST_KILL_ID' = r.last
           /\ posted' = posted \o r.sent
           /\ unsent' = unsent \cup r.failed
           /\ UNCHANGED <<kill_logs, fileVars, netVars, flight, lockVars, payVars>>

FeedInit == FilesIdle /\ NetIdle

FeedNext == InsertKillRows \/ KillFeedTick

FeedSpec == FeedInit /\ [][FeedNext]_vars

\* ------------------------------------------------------------ the PvP payout
\* The clock passes the end of the running period.
NextPeriod ==
    /\ period < MaxPeriods
    /\ period' = period + 1
    /\ UNCHANGED <<pvp_payouts, cash, fileVars, netVars, flight, lockVars, feedVars>>

\* One call of update_pvp_board_and_optional_payout from run_updater_loop with
\* payouts enabled; the previous period began at period - 1. The loop catches
\* the exception of a fault.
PvpTick ==
    \E fault \in {"none", "board", "award", "dm", "mark"}, k \in 1..Len(PrevTop) :
        LET prev_start == period - 1
            r == pvp_payout(prev_start \in pvp_payouts, fault, k)
        IN /\ fault \notin {"award", "dm"} => k = 1
           /\ \A p \in Players : cash[prev_start][p] < MaxAwards
           /\ cash' = [cash EXCEPT ![prev_start] =
                          [p \in Players |-> IF p \in r.awarded THEN @[p] + 1 ELSE @[p]]]
           /\ pvp_payouts' = IF r.marked THEN pvp_payouts \cup {prev_start} ELSE pvp_payouts
           /\ UNCHANGED <<period, fileVars, netVars, flight, lockVars, feedVars>>

PayoutInit == FilesIdle /\ NetIdle

PayoutNext == NextPeriod \/ PvpTick

PayoutSpec == PayoutInit /\ [][PayoutNext]_vars

\* ================================================================= claims
\* C5: for each of the five parsers, every file and every stored checkpoint,
\* a second run on the unchanged file with the checkpoint the first run left
\* emits no event and leaves the checkpoint as it is.
C5_SecondRunEmitsNothing ==
    run = 2 => res.events = <<>> /\ cp = res.before

\* C6: a parse that scans N new lines after the checkpoint advances the stored
\* last_line by exactly N, whether or not the lines matched a pattern.
C6_AdvancesByLinesScanned ==
    run = 1 =>
        LET N == Len(plines) - (res.start + 1)
        IN N > 0 => cp.last_line = res.start + N

\* C7: when the stored last_file differs from the current file name, or the
\* stored last_file_size is larger than the size of the current file of the
\* same name, the parse examines the file from line 0: last_line is taken as
\* -1 and the events are those of the whole file.
C7_ResetCondition ==
    \/ res.before.last_file # ParsedFile
    \/ res.before.last_file_size # NoneVal /\ res.before.last_file_size > FileSize(plines)

C7_RotationRescansFromZero ==
    (run = 1 /\ C7_ResetCondition) =>
        /\ res.start = -1
        /\ res.events =
             Parse(ltype, plines, ParsedFile, get_parsed_checkpoint_default, FALSE).events
        /\ plines # <<>> /\ ltype \in {"kill", "admin", "sentry"}
              => cp = Checkpoint(ParsedFile, Len(plines) - 1, FileSize(plines))

\* A truncated file of the same name whose stored last_line was past line 0:
\* the event of line 0 is emitted again.
C7_Witness ==
    /\ run = 1
    /\ res.before.last_file = ParsedFile
    /\ res.before.last_file_size > FileSize(plines)
    /\ res.before.last_line >= 1
    /\ res.events # <<>>
    /\ res.events[1].idx = 0

\* C9: in parse_kill_lines a summary line and a detail line of the same
\* timestamp text in one batch yield exactly one kill event, with weapon and
\* distance of the summary and positions and time of day of the detail; a
\* detail line with no summary line of its timestamp yields no event.
KillEventsAt(ts) == {i \in 1..Len(res.events) : res.events[i].tag = "NONE" /\ res.events[i].ts = ts}

SummariesAt(ts) == {i \in 1..Len(plines) : plines[i].kind = "summary" /\ plines[i].ts = ts}

DetailsAt(ts) == {i \in 1..Len(plines) : plines[i].kind = "detail" /\ plines[i].ts = ts}

C9_SummaryAndDetailCorrelate ==
    run = 1 =>
        \A ts \in {T0, T1, T2} :
            /\ (SummariesAt(ts) # {} /\ DetailsAt(ts) # {}) =>
                  /\ Cardinality(KillEventsAt(ts)) = 1
                  /\ \A i \in KillEventsAt(ts) :
                        /\ \E s \in SummariesAt(ts) :
                              /\ res.events[i].val = plines[s].val
                              /\ res.events[i].num = plines[s].num
                              /\ res.events[i].sid = plines[s].sid
                              /\ res.events[i].sid2 = plines[s].sid2
                        /\ \E j \in DetailsAt(ts) :
                              /\ res.events[i].pos = plines[j].pos
                              /\ res.events[i].pos2 = plines[j].num
                              /\ res.events[i].tod = plines[j].tod
            /\ (SummariesAt(ts) = {} /\ DetailsAt(ts) # {}) => KillEventsAt(ts) = {}

\* One batch with a correlated pair and with a detail line that has no summary.
C9_Witness ==
    /\ run = 1
    /\ SummariesAt(T0) # {} /\ DetailsAt(T0) # {}
    /\ SummariesAt(T2) = {} /\ DetailsAt(T2) # {}
    /\ \E i \in KillEventsAt(T0) : res.events[i].pos # NoneVal /\ res.events[i].tod # NoneVal

\* C1: over passes in which the remote files of a log type are only appended
\* to or newly created, two or more files of the type changing in alternation
\* included, no line of a file is emitted as an event and persisted more than
\* once.
C1_NoLinePersistedTwice ==
    \A f \in FileNames : \A i \in DOMAIN persisted[f] : persisted[f][i] <= 1

\* C2: if persisting the batch of a (target, log type) fails, the stored
\* checkpoint has its pre-batch value after the pass, and the next pass parses
\* the same lines again.
C2_FailedSaveKeepsCheckpoint ==
    [][(cached' # cached /\ last'.fault \in {"insert", "event"}) =>
          /\ cp' = cp
          /\ \A f \in FileNames : cached'[f] # cached[f] =>
                Parse(ltype, remote[f], f, cp', FALSE).events = last'.events]_vars

\* C4: no event is persisted without its checkpoint advancing: if the
\* checkpoint write of a batch fails, none of the events of the batch is
\* persisted.
C4_FailedCheckpointPersistsNothing ==
    [][(cached' # cached /\ last'.fault = "cp") =>
          /\ persisted' = persisted
          /\ db' = db]_vars

\* C8: for a fixed last_file whose cached copy never shrinks, the stored
\* last_line of the checkpoint never decreases over any sequence of parser runs.
C8_LastLineMonotone ==
    [][cp'.last_file = cp.last_file => cp'.last_line >= cp.last_line]_vars

\* The parser ran twice on file 1 and the second run moved last_line from 0 to 1.
C8_Witness ==
    /\ cp.last_file = 1
    /\ cp.last_line = 1
    /\ Len(last.events) = 1
    /\ last.events[1].idx = 1
    /\ persisted[1][0] = 1
    /\ persisted[1][1] = 1

\* C3: when the datastore raises while persisting an event of a kill batch, no
\* kill fact and no player or weapon aggregate change of that batch is visible
\* afterwards.
C3_FailedKillBatchLeavesNothing ==
    [][last'.fault # "none" =>
          /\ db'.facts = db.facts
          /\ db'.pstats = db.pstats
          /\ db'.wstats = db.wstats]_vars

\* C10: persisting a suicide event adds 1 to that player's deaths and
\* recomputes the player's kd_ratio; kills, longest_kill and favorite_weapon of
\* the player and every weapon aggregate stay as they are.  Stated for a batch
\* of suicide events: each player's deaths grow by the number of the player's
\* suicides in the batch.
SuicidesOf(events, p) ==
    Cardinality({i \in 1..Len(events) : events[i].tag = "SUICIDE" /\ events[i].sid = p})

AllSuicides(events) == \A i \in 1..Len(events) : events[i].tag = "SUICIDE"

C10_SuicideCountsDeathOnly ==
    [][(last'.fault = "none" /\ AllSuicides(last'.events)) =>
          /\ db'.wstats = db.wstats
          /\ \A p \in Players :
                /\ db'.pstats[p].deaths = db.pstats[p].deaths + SuicidesOf(last'.events, p)
                /\ db'.pstats[p].kills = db.pstats[p].kills
                /\ db'.pstats[p].longest_kill = db.pstats[p].longest_kill
                /\ db'.pstats[p].favorite_weapon = db.pstats[p].favorite_weapon
                /\ SuicidesOf(last'.events, p) > 0 =>
                      db'.pstats[p].kd_ratio =
                          <<db.pstats[p].kills, db.pstats[p].deaths + SuicidesOf(last'.events, p)>>]_vars

\* Player 1, who has a kill with weapon 2 on record, commits suicide.
C10_Witness ==
    /\ last.fault = "none"
    /\ last.events = <<SuicideEvent(SuicideLine(T0, 1, 1), 0)>>
    /\ db.pstats[1].kills = 1
    /\ db.pstats[1].deaths = 1
    /\ db.pstats[1].kd_ratio = <<1, 1>>
    /\ db.pstats[1].favorite_weapon = 2
    /\ db.wstats[1][2].kills = 1

\* C11: persisting a non-suicide kill by K on V with weapon W at distance d
\* creates zero-initialised rows for K and V where missing, adds 1 to K.kills
\* and to V.deaths, sets K.longest_kill to the larger of its value and d, and
\* adds 1 to the kills and d to the total_distance of the (K, W) weapon row.
\* Stated for a batch of that one event.
C11_KillUpdatesAggregates ==
    [][(last' # last /\ Len(last'.events) = 1 /\ last'.events[1].tag # "SUICIDE") =>
          LET e == last'.events[1]
              K == e.sid
              V == e.sid2
              W == e.val
              d == IF e.num = NoneVal THEN 0 ELSE e.num
          IN /\ db'.pstats[K].exists /\ db'.pstats[V].exists
             /\ db'.pstats[K].kills = db.pstats[K].kills + 1
             /\ db'.pstats[V].deaths = db.pstats[V].deaths + 1
             /\ db'.pstats[K].deaths = db.pstats[K].deaths
             /\ db'.pstats[V].kills = db.pstats[V].kills
             /\ db'.pstats[K].longest_kill =
                   (IF db.pstats[K].longest_kill >= d THEN db.pstats[K].longest_kill ELSE d)
             /\ db'.wstats[K][W].kills = db.wstats[K][W].kills + 1
             /\ db'.wstats[K][W].total_distance = db.wstats[K][W].total_distance + d]_vars

\* Player 2, with a kill at distance 2 on record, kills player 1 at distance 1
\* with weapon 2; player 1 has no kill.
C11_Witness ==
    /\ last.events = <<KillAt(T0, 1, 2, 2, 1)>>
    /\ db.pstats[2].kills = 2
    /\ db.pstats[2].longest_kill = 2
    /\ db.pstats[2].deaths = 0
    /\ db.pstats[2].kd_ratio = <<2, 1>>
    /\ db.pstats[1].deaths = 2
    /\ db.pstats[1].kills = 0
    /\ db.wstats[2][2] = [kills |-> 1, longest_kill |-> 1, total_distance |-> 1,
                           last_kill_ts |-> T0]

\* C12: in every store reached by successfully persisted kill batches, each
\* player row has kd_ratio = kills when deaths = 0 and kills / deaths otherwise
\* (kd_ratio is the fraction <<n, m>>: n / m = kills / deaths).
C12_KdRatioInvariant ==
    \A p \in Players :
        db.pstats[p].exists =>
            LET r == db.pstats[p]
            IN /\ r.kd_ratio[2] > 0
               /\ r.deaths = 0 => r.kd_ratio[1] = r.kills * r.kd_ratio[2]
               /\ r.deaths > 0 => r.kd_ratio[1] * r.deaths = r.kills * r.kd_ratio[2]

\* Player 1 has one kill and two deaths.
C12_Witness ==
    /\ db.pstats[1].kills = 1
    /\ db.pstats[1].deaths = 2
    /\ db.pstats[1].kd_ratio = <<1, 2>>

\* C13: after a non-suicide kill is persisted the killer's favorite_weapon is
\* the weapon of the killer's weapon rows with the most kills, ties broken by
\* the larger longest_kill, then by the more recent last_kill_ts.
NotBehind(a, b) ==
    \/ a.kills > b.kills
    \/ a.kills = b.kills /\ a.longest_kill > b.longest_kill
    \/ a.kills = b.kills /\ a.longest_kill = b.longest_kill
          /\ (a.last_kill_ts[1] > b.last_kill_ts[1]
                \/ (a.last_kill_ts[1] = b.last_kill_ts[1]
                      /\ a.last_kill_ts[2] >= b.last_kill_ts[2]))

C13_FavoriteWeapon ==
    [][last' # last =>
          \A i \in 1..Len(last'.events) :
              last'.events[i].tag # "SUICIDE" =>
                  LET K == last'.events[i].sid
                      fav == db'.pstats[K].favorite_weapon
                  IN /\ fav \in Weapons
                     /\ db'.wstats[K][fav].kills > 0
                     /\ \A w \in Weapons :
                            db'.wstats[K][w].kills > 0 =>
                                NotBehind(db'.wstats[K][fav], db'.wstats[K][w])]_vars

\* Player 2 has one kill with each weapon, both at distance 2; the kill with
\* weapon 2 is the later one.
C13_Witness ==
    /\ last.events # <<>>
    /\ last.events[Len(last.events)] = KillAt(T1, 1, 2, 2, 2)
    /\ db.wstats[2][1] = [kills |-> 1, longest_kill |-> 2, total_distance |-> 2,
                           last_kill_ts |-> T0]
    /\ db.wstats[2][2] = [kills |-> 1, longest_kill |-> 2, total_distance |-> 2,
                           last_kill_ts |-> T1]
    /\ db.pstats[2].favorite_weapon = 2

\* The step in which the task of target g runs process_guild.
RanGuild(g) == task[g].pc = "pending" /\ task'[g].pc = "done"

C15_FailureFallsBackToSafeFtp ==
    [][\A g \in Targets :
          (RanGuild(g) /\ task'[g].first \in {"aioftp", "sftp"} /\ task'[g].err # "ok") =>
              task'[g].fallback # "none"]_vars

\* C16: when the primary FTP attempt fails with an error other than the
\* passive-mode mismatch, the remembered preference becomes safe_ftp whether
\* or not the safe_ftp fallback of the pass succeeds, and no backoff deadline
\* is set.
C16_OtherFailureDowngrades ==
    [][\A g \in Targets :
          (RanGuild(g) /\ task'[g].first = "aioftp" /\ task'[g].err \in {"timeout", "error"}) =>
              /\ TRANSPORT_PREF'[g] = "safe_ftp"
              /\ AIOFTP_BACKOFF_UNTIL'[g] = AIOFTP_BACKOFF_UNTIL[g]]_vars

\* C17: for a target with no active backoff, process_guild uses the
\* remembered preference when there is one; otherwise sftp if the port is 22
\* or the host contains "sftp", and primary FTP in every other case.
C17_TransportChoice ==
    [][\A g \in Targets :
          (RanGuild(g) /\ ~(AIOFTP_BACKOFF_UNTIL[g] > now)) =>
              task'[g].first =
                  (IF TRANSPORT_PREF[g] # "none" THEN TRANSPORT_PREF[g]
                   ELSE IF guilds[g].port = 22 \/ guilds[g].host = "sftp.example.net"
                        THEN "sftp"
                        ELSE "aioftp")]_vars

\* The first pass of a target on port 21 whose host name holds "sftp".
C17_Witness ==
    /\ phase = "scanning"
    /\ tick = 1
    /\ guilds[1] = Guild("sftp.example.net", 21)
    /\ task[1].pc = "done"
    /\ task[1].first = "sftp"

\* C18: while the time is before the backoff deadline of a target, every pass
\* of the target uses safe_ftp and nothing else, whatever the remembered
\* preference and whatever the port and host select.
C18_BackoffForcesSafeFtp ==
    [][\A g \in Targets :
          (RanGuild(g) /\ AIOFTP_BACKOFF_UNTIL[g] > now) =>
              /\ task'[g].first = "safe_ftp"
              /\ task'[g].fallback = "none"
              /\ task'[g].completed \in {"safe_ftp", "none"}]_vars

\* A pass inside the backoff window of a target whose row now names port 22.
C18_Witness ==
    /\ phase = "scanning"
    /\ AIOFTP_BACKOFF_UNTIL[1] > now
    /\ guilds[1].port = 22
    /\ task[1].pc = "done"
    /\ task[1].first = "safe_ftp"

\* C19: once the backoff deadline of the target has passed, a later pass tries
\* a transport other than safe_ftp for it first (primary FTP, or sftp when the
\* row names it).
C19_BackoffExpires ==
    (AIOFTP_BACKOFF_UNTIL[1] > 0 /\ now >= AIOFTP_BACKOFF_UNTIL[1])
        ~> (phase = "scanning" /\ task[1].first \in {"aioftp", "sftp"})

\* C20: in a tick with several targets no exception leaves process_guild, the
\* pass of one target changes nothing of another target, and the tick
\* completes with the task of every target done.
C20_TargetsAreIsolated ==
    /\ [](\A g \in Targets : ~task[g].raised)
    /\ [][\A g \in Targets : RanGuild(g) =>
            \A h \in Targets \ {g} :
                /\ task'[h] = task[h]
                /\ TRANSPORT_PREF'[h] = TRANSPORT_PREF[h]
                /\ AIOFTP_BACKOFF_UNTIL'[h] = AIOFTP_BACKOFF_UNTIL[h]]_vars
    /\ (phase = "scanning") ~> (phase = "sleeping" /\ \A g \in Targets : task[g].pc = "done")

\* The tick completed; both transports of target 1 failed, target 2 downloaded.
C20_Witness ==
    /\ phase = "sleeping"
    /\ task[1] = TaskOf("done", "aioftp", "error", "error", "none", FALSE)
    /\ task[2].pc = "done"
    /\ task[2].completed = "aioftp"

\* C21: a tick whose configuration load (get_server_counts or get_guild_rows)
\* raised is followed by a later tick: the scheduler loop is alive and creates
\* the tasks of the targets again.
C21_LoadFailureSkipsOneTick ==
    (phase = "raised") ~> (phase = "scanning")

\* C22: a pass over a file in which the parser raised while scanning leaves the
\* stored checkpoint of the (target, log type) as it was, and leaves the file
\* due for the next pass: its local copy does not count as up to date, so the
\* next pass fetches it and parses it again from that checkpoint.
C22_ParserErrorRetriesFile ==
    [][\A f \in FileNames :
          (last'.fault = "parse" /\ cached'[f] # cached[f])
              => (cp' = cp /\ cached'[f] # FileSize(remote'[f]))]_vars

\* C23: when the downloader task has been cancelled, no file of the target is
\* left between the advance of its checkpoint and the save of its events: the
\* events a parser returned have all been handed to the save, and events are
\* saved only as the step that follows the parser's return.
C23_CancelKeepsFileAtomic ==
    /\ [](flight.at = "cancelled" => flight.events = <<>>)
    /\ [][db' # db => flight.at = "parsed" /\ flight'.at = "list"]_vars

\* cancelled during the transfer of a file, after an earlier file was parsed and saved
C23_Witness ==
    /\ flight.at = "cancelled"
    /\ flight.file # NoFile
    /\ cp # get_parsed_checkpoint_default
    /\ db # EmptyDb

\* C24: persisting a sentry batch adds to the sentry_kills of every attacker
\* the number of the attacker's events in the batch when the target's sentry
\* flag is enabled, also for an attacker that had no aggregate row, and leaves
\* every sentry_kills as it was when the flag is disabled.
C24_SentryKillsFollowFlag ==
    [][written' # written =>
          \A sid \in Players :
              db'.pstats[sid].sentry_kills =
                  db.pstats[sid].sentry_kills
                      + (IF postSentries THEN SentryCount(last'.events, sid) ELSE 0)]_vars

\* the login / logout lines of steam id sid in the file, by position
LoginLinesOf(sid) == {i \in 1..Len(plines) : plines[i].kind = "login" /\ plines[i].sid = sid}

\* C25: after a login batch is parsed and persisted, the stored status,
\* position and last-seen (to the minute) of every steam id with a line in the
\* batch are those of the last login / logout line of that steam id.
C25_LastLoginLineWins ==
    run = 1 =>
        \A sid \in Players :
            LoginLinesOf(sid) # {} =>
                LET l == plines[Max(LoginLinesOf(sid))]
                IN db.logins[sid] = [status |-> LoginStatus(l.val), pos |-> l.pos,
                                     last_seen |-> <<l.ts[1], 0>>]

\* the names the statement says are log files
C26_NamedAsLog ==
    \/ \E t \in {"chat_", "login_", "kill_", "admin_"} : StartsWith(flight.file, t)
    \/ ContainsSentry(flight.file)

\* C26: an entry of the listing is fetched and handed to a parser when its
\* name starts with chat_, login_, kill_ or admin_ (case-sensitive) or holds
\* "sentry" in any case, and is neither fetched nor parsed otherwise.
C26_OnlyLogFilesAreFetched ==
    flight.at # "list" =>
        /\ C26_NamedAsLog => flight.at = "parsed"
        /\ ~C26_NamedAsLog => flight.at = "skipped"

\* C27: a file whose remote size equals the size of its local copy is neither
\* fetched nor parsed: no step persists an event of it or touches its copy, and
\* while every file is in that state no step changes the checkpoint, a fact
\* table or an aggregate.
C27_SameSizeIsSkipped ==
    [][/\ \A f \in FileNames :
              (cached[f] = FileSize(remote[f]) /\ remote'[f] = remote[f])
                  => (cached'[f] = cached[f] /\ persisted'[f] = persisted[f])
       /\ (\A f \in FileNames : cached[f] = FileSize(remote[f]))
              => (cp' = cp /\ db' = db /\ cached' = cached)]_vars

\* every file has been fetched and is unchanged; events of them are stored
C27_Witness ==
    /\ \A f \in FileNames : cached[f] = FileSize(remote[f]) /\ remote[f] # <<>>
    /\ cp.last_file # NoFile
    /\ db # EmptyDb

\* C28: after every pass of a target that completed a download, the target's
\* remembered transport is the transport that completed it.
C28_PreferenceIsCompletedTransport ==
    [][\A g \in DOMAIN guilds :
          (RanGuild(g) /\ task'[g].completed # "none")
              => TRANSPORT_PREF'[g] = task'[g].completed]_vars

\* a pass completed by the fallback, after passes completed by primary FTP
C28_Witness ==
    /\ tick > 1
    /\ task[1].pc = "done"
    /\ task[1].first = "aioftp"
    /\ task[1].completed = "safe_ftp"
    /\ TRANSPORT_PREF[1] = "safe_ftp"

\* positions of the messages of a batch that hold the registration token
TokenMessages(events) == {i \in 1..Len(events) : HasRegCode(events[i].val)}

\* the player whose message is the first of the batch to hold the token
FirstTokenPlayer(events) ==
    events[CHOOSE i \in TokenMessages(events) : \A j \in TokenMessages(events) : i <= j].sid

\* C29: persisting chat messages links the player of the first message that
\* holds the registration token to the pending registration with that token,
\* and marks it completed, exactly when such a record exists and is not
\* completed; otherwise, and for every later message with the token, no
\* identity link and no pending record changes.
C29_RegistrationLinksOnce ==
    [][written' # written =>
          LET events == last'.events
              links == TokenMessages(events) # {} /\ db.pending.exists /\ ~db.pending.linked
          IN IF links
             THEN /\ db'.pstats[FirstTokenPlayer(events)].discord_id = db.pending.discord_id
                  /\ db'.pending = [db.pending EXCEPT !.linked = TRUE]
                  /\ \A sid \in Players \ {FirstTokenPlayer(events)} :
                         db'.pstats[sid].discord_id = db.pstats[sid].discord_id
             ELSE /\ db'.pending = db.pending
                  /\ \A sid \in Players :
                         db'.pstats[sid].discord_id = db.pstats[sid].discord_id]_vars

\* player 1 was linked by an earlier batch; the last batch carried the token
\* again, from player 2, who is not linked
C29_Witness ==
    /\ db.pending.linked
    /\ db.pstats[1].discord_id = 7
    /\ db.pstats[2].discord_id = NoneVal
    /\ Len(db.facts) > Len(last.events)
    /\ last.events # <<>>
    /\ \E i \in 1..Len(last.events) : HasRegCode(last.events[i].val) /\ last.events[i].sid = 2

\* C30: the events parse_kill_lines emits for a batch, which the save then
\* persists and applies one after the other, are in the order of their lines
\* in the file (a kill is at its summary line), also when the batch mixes
\* suicide lines and kill summary lines.
C30_EventsInLineOrder ==
    run = 1 =>
        \A i, j \in 1..Len(res.events) :
            i < j => res.events[i].idx < res.events[j].idx

\* C31: process_guild for target g reads and writes only the entries of g in
\* TRANSPORT_PREF and AIOFTP_BACKOFF_UNTIL: a step of the task of g, at any
\* point of the interleaving with the tasks of the other targets, leaves the
\* entries of every other target as they were.
C31_TaskStep(g) == task[g].pc \in {"pending", "running"} /\ task'[g] # task[g]

C31_OtherEntriesUnchanged ==
    [][\A g \in DOMAIN guilds :
          C31_TaskStep(g) /\ phase' = phase =>
              \A h \in Targets \ {g} :
                  /\ TRANSPORT_PREF'[h] = TRANSPORT_PREF[h]
                  /\ AIOFTP_BACKOFF_UNTIL'[h] = AIOFTP_BACKOFF_UNTIL[h]]_vars

\* The task of target 2 fell back to safe_ftp and set a deadline while the
\* task of target 1 was in flight, whose entries are still unset.
C31_Witness ==
    /\ task[1].pc = "running"
    /\ task[2].pc = "done"
    /\ TRANSPORT_PREF[2] = "safe_ftp"
    /\ AIOFTP_BACKOFF_UNTIL[2] > 0
    /\ TRANSPORT_PREF[1] = "none"
    /\ AIOFTP_BACKOFF_UNTIL[1] = 0

\* C32: all tasks of a tick have finished before the next tick creates its
\* tasks: when a tick creates tasks no task of an earlier tick is pending or
\* running, so no target has two tasks in flight.
C32_TicksDoNotOverlap ==
    [][phase # "scanning" /\ phase' = "scanning" =>
          \A g \in Targets : task[g].pc \in {"idle", "done"}]_vars

\* A later tick with the tasks of both targets in flight.
C32_Witness ==
    /\ tick >= 2
    /\ task[1].pc = "running"
    /\ task[2].pc = "running"

\* C34: an exception of a parser or of a save inside the aioftp pass is not
\* treated as a transport failure: the safe_ftp fallback is not started and
\* the entries of the target in TRANSPORT_PREF and AIOFTP_BACKOFF_UNTIL stay.
C34_SaveErrorIsNoTransportFailure ==
    [][\A g \in DOMAIN guilds :
          task[g].pc = "running" /\ task'[g].pc = "done" /\ task'[g].err = "save_error" =>
              /\ task'[g].fallback = "none"
              /\ TRANSPORT_PREF'[g] = TRANSPORT_PREF[g]
              /\ AIOFTP_BACKOFF_UNTIL'[g] = AIOFTP_BACKOFF_UNTIL[g]]_vars

\* the login lines of the file that are not identical to the line before them
C33_KeptLines ==
    {i \in 1..Len(plines) : plines[i].kind = "login" /\ (i = 1 \/ plines[i - 1] # plines[i])}

\* C33: in the chat and login parsers a matching line is dropped only when it
\* is identical to the line immediately before it: matching lines that differ
\* in a field or in their seconds, and identical lines that are not adjacent,
\* each yield a record.
C33_OnlyAdjacentDuplicatesDropped ==
    run = 1 => {res.events[j].idx + 1 : j \in 1..Len(res.events)} = C33_KeptLines

\* C35: in parse_kill_lines every kill summary line of a batch yields its own
\* kill event: the events that are not suicides are as many as the summary
\* lines of the batch, also when two summary lines carry the same timestamp.
C35_EverySummaryYieldsAnEvent ==
    run = 1 =>
        Cardinality({i \in 1..Len(res.events) : res.events[i].tag = "NONE"})
            = Cardinality({i \in 1..Len(plines) : plines[i].kind = "summary"})

\* C36: after any sequence of successfully persisted kill batches the kills of
\* every player aggregate equal the sum of the kills of that player's weapon
\* aggregates.
C36_KillsAreSumOfWeaponKills ==
    \A p \in Players :
        db.pstats[p].kills = db.wstats[p][1].kills + db.wstats[p][2].kills

\* Player 2 has three kills on record: one with weapon 1, two with weapon 2.
C36_Witness ==
    /\ db.pstats[2].kills = 3
    /\ db.wstats[2][1].kills = 1
    /\ db.wstats[2][2].kills = 2

\* C37: an event of a sentry batch whose fact is already stored (its insert
\* is ignored as a duplicate) does not add to the attacker's sentry_kills:
\* with the flag enabled the sentry_kills of an attacker never exceed the
\* number of stored sentry facts of that attacker.
C37_SentryKillsWithinStoredFacts ==
    postSentries =>
        \A sid \in Players :
            db.pstats[sid].sentry_kills
                <= Cardinality({i \in 1..Len(db.facts) : db.facts[i].sid = sid})

\* the call is between fetching or editing the rolling message and storing
\* the id of the new one
C38_InRolling(c) == call[c].pc \in {"fetch", "edit", "send", "store"}

\* C38: for a (guild, settings column) at most one upsert_rolling_embed call
\* is between fetching or editing the rolling message and storing the new
\* message id; calls for the same key are serialized, and a call waits only
\* for calls of its own key.
C38_RollingEditsAreSerialized ==
    /\ \A c, d \in Calls :
           c # d /\ C38_InRolling(c) /\ C38_InRolling(d) => call[c].key # call[d].key
    /\ \A c \in Calls :
           call[c].pc = "waiting" =>
               LET l == lock[call[c].lock]
               IN /\ l.owner # NoneVal => call[l.owner].key = call[c].key
                  /\ \A i \in 1..Len(l.waiters) : call[l.waiters[i]].key = call[c].key
                  /\ l.owner # NoneVal \/ Head(l.waiters) # c =>
                         \E d \in Calls \ {c} :
                             call[d].key = call[c].key /\ call[d].pc \notin {"idle", "done"}

\* A call stores the id of its new chat message while a second call for the
\* chat message waits and a call for the PvP message sends its own.
C38_Witness ==
    /\ call[1].pc = "store" /\ call[1].key = "chat_message"
    /\ call[2].pc = "waiting" /\ call[2].key = "chat_message"
    /\ call[3].pc = "send" /\ call[3].key = "pvp_message"

\* C39: in update_kill_feed each kill_logs row of a guild is posted at most
\* once and in ascending id order; LAST_KILL_ID never decreases; the first
\* call only seeds it to the largest id and posts nothing; and it is advanced
\* to a row's id before the row is sent, so a row whose send raised is not
\* posted on a later tick.
C39_KillRowsPostedOnceInOrder ==
    /\ [](/\ \A i, j \in 1..Len(posted) : i < j => posted[i] < posted[j]
          /\ \A i \in 1..Len(posted) : posted[i] \notin unsent)
    /\ [][/\ LAST_KILL_ID # NoneVal => LAST_KILL_ID' # NoneVal /\ LAST_KILL_ID' >= LAST_KILL_ID
          /\ LAST_KILL_ID = NoneVal /\ LAST_KILL_ID' # NoneVal =>
                 posted' = posted /\ LAST_KILL_ID' = kill_logs]_vars

\* Row 1 was there at the first call and is not posted, the send of row 2
\* raised, and row 3 was posted by a later tick.
C39_Witness ==
    /\ LAST_KILL_ID = 3
    /\ unsent = {2}
    /\ posted = <<3>>

\* C40: for each (guild, period type, period start) the prize of the previous
\* period is awarded at most once: over any sequence of updater ticks, also
\* ticks in which award_cash, the payout DM or mark_paid_period raises, no
\* player has the prize of a period added to their cash twice.
C40_PrizeAwardedAtMostOnce ==
    \A s \in DOMAIN cash : \A p \in Players : cash[s][p] <= 1

====
